---------------------------- MODULE ServerProofs ----------------------------
(* What holds of Server for all documents, requests, front ends and        *)
(* bounds: of its types and its configuration, of the caches of a read-only *)
(* worker and of those that are written, of the threads that fetch, and of *)
(* its answers: when they expire, what type they say they are, and whether *)
(* a tile or a map shows what was asked for.                               *)
EXTENDS Server, GridProofs, FiniteSetTheorems

(* The configuration is left alone by the whole handling of a request, and *)
(* a document that is being read is read before anything else happens.     *)
Settled == pc # "read" /\ UNCHANGED <<frontend, file, loading>>
Restarts == UNCHANGED <<frontend, file>> /\ lost' = (file.doc = None)
Again == Restarts /\ frontend # "cgi" /\ UNCHANGED <<mtime, config, memory, born>> /\ pc # "read"
Anew == Restarts /\ frontend = "cgi" /\ Forgotten

Steps ==
  \/ \E d \in DOMAIN Documents \cup {None} : Edit(d)
  \/ OpenFails \/ Stat \/ Read \/ ReadKeepsOld \/ FirstReadFails
  \/ Settled \/ Again \/ Anew

LEMMA StepsOfTheProcess == Next /\ ~Finished => Steps
<1> SUFFICES ASSUME Next, ~Finished PROVE Steps OBVIOUS
<1> USE DEF Settled, Steps, loading, world
<1>1. ASSUME NEW d \in DOMAIN Documents \cup {None}, Edit(d) PROVE Steps BY <1>1
<1>2. ASSUME NEW r \in DOMAIN Requests, Accept(r) PROVE Steps BY <1>2 DEF Accept
<1>3. CASE Astray BY <1>3 DEF Astray
<1>4. CASE OpenFails \/ Stat \/ Read \/ ReadKeepsOld \/ FirstReadFails BY <1>4
<1>5. CASE DispatchRequest BY <1>5 DEF DispatchRequest
<1>6. ASSUME NEW way \in Ways, FetchNext(way) PROVE Steps
  BY <1>6, Zenon DEF FetchNext, FetchTile, Fetching
<1>7. ASSUME NEW way \in Ways, FetchRest(way) PROVE Steps BY <1>7, Zenon DEF FetchRest, FetchTile
<1>8. ASSUME NEW n \in DOMAIN Tiles, NEW way \in Ways, FetchInThread(n, way) PROVE Steps
  BY <1>8, Zenon DEF FetchInThread, FetchTile, Fetching
<1>9. CASE JoinThreads BY <1>9, Zenon DEF JoinThreads, Fetching
<1>10. ASSUME NEW code, Refuse(code), pc # "read" PROVE Steps BY <1>10 DEF Refuse
<1>11. ASSUME NEW outcome, Sent(outcome), pc # "read" PROVE Steps BY <1>10, <1>11, Zenon DEF Sent
<1>12. ASSUME Die, pc # "read" PROVE Steps BY <1>12 DEF Die
<1>13. FetchedAll => pc # "read" BY DEF FetchedAll
<1>14. CASE SendTile BY <1>11, <1>13, <1>14, Zenon DEF SendTile
<1>15. CASE SendMap BY <1>11, <1>13, <1>15, Zenon DEF SendMap
<1>16. CASE MapWithoutFormat BY <1>10, <1>12, <1>13, <1>16, Zenon DEF MapWithoutFormat
<1>17. CASE \E said \in DOMAIN Now.says : ForwardMap(said) \/ SendPage(said) \/ SendInfo(said) \/ SendProxied(said)
  BY <1>11, <1>17, Zenon DEF ForwardMap, SendPage, SendInfo, SendProxied
<1>18. CASE NothingToSend BY <1>12, <1>18 DEF NothingToSend
<1>19. CASE RespondToError BY <1>19, Zenon DEF RespondToError
<1>20. CASE Cleanup BY <1>20 DEF Cleanup
<1>21. CASE Respawn BY <1>21 DEF Respawn, Fresh, Again, Anew, Restarts
<1>22. CASE Recycle BY <1>22 DEF Recycle, Fresh, Anew, Restarts
<1> QED
  BY <1>1, <1>2, <1>3, <1>4, <1>5, <1>6, <1>7, <1>8, <1>9, <1>14, <1>15, <1>16, <1>17, <1>18, <1>19, <1>20,
     <1>21, <1>22 DEF Next, Serve

-----------------------------------------------------------------------------
(* Edits.                                                                   *)

(* No file is from the future: an edit that is still to come is later than *)
(* every reading. TypeOK bounds the times, here they need only be numbers. *)
Times == file.written \in Nat /\ mtime \in Nat /\ mtime <= file.written

EditsInv == Times /\ EditsAreNoticed

LEMMA EditsStart == Init => EditsInv
BY ServerAssumption DEF Init, EditsInv, Times, EditsAreNoticed

LEMMA EditsStay == EditsInv /\ [Next]_vars => EditsInv'
<1> SUFFICES ASSUME EditsInv, [Next]_vars PROVE EditsInv' OBVIOUS
<1> USE DEF EditsInv, Times, EditsAreNoticed
<1>1. CASE UNCHANGED vars BY <1>1 DEF vars, Loads
<1>2. CASE Finished BY <1>1, <1>2 DEF Finished
<1>3. ASSUME NEW d \in DOMAIN Documents \cup {None}, Edit(d) PROVE EditsInv' BY <1>3 DEF Edit
<1>4. CASE OpenFails BY <1>4 DEF OpenFails
<1>5. CASE Stat BY <1>5 DEF Stat, Loads
<1>6. CASE Read BY <1>6 DEF Read
<1>7. CASE ReadKeepsOld BY <1>7 DEF ReadKeepsOld, loading, Loads
<1>8. CASE FirstReadFails BY <1>8 DEF FirstReadFails
<1>9. CASE Settled BY <1>9 DEF Settled, loading, Loads
<1>10. CASE Again BY <1>10 DEF Again, Restarts, Loads
<1>11. CASE Anew BY <1>11 DEF Anew, Restarts, Forgotten
<1> QED
  BY StepsOfTheProcess, <1>1, <1>2, <1>3, <1>4, <1>5, <1>6, <1>7, <1>8, <1>9, <1>10, <1>11 DEF Steps

(* Whatever documents the file gets, and whenever: when the time that is   *)
(* remembered is the file's, the configuration in use is the file's.       *)
THEOREM EditsNoticed == Spec => []EditsAreNoticed
<1>1. EditsInv => EditsAreNoticed BY DEF EditsInv
<1> QED BY EditsStart, EditsStay, <1>1, PTL DEF Spec

(* What a module was started with stays; the CGI loses its configuration   *)
(* only where it has none that is sound.                                   *)
Away == file.doc = None => lost
Started == frontend # "cgi" => file.doc # None /\ config # None /\ memory = "live"
Unsound == config = None /\ born # None => ~Loads(born)
HarmInv == Away /\ Started /\ Unsound /\ BadEditsDoNoHarm

LEMMA HarmStart == Init => HarmInv
<1> SUFFICES ASSUME Init PROVE HarmInv OBVIOUS
<1> USE DEF HarmInv, Away, Started, Unsound, BadEditsDoNoHarm
<1>1. file.doc # None BY ServerAssumption DEF Init
<1>2. CASE frontend = "cgi" BY <1>1, <1>2 DEF Init
<1>3. CASE frontend # "cgi" BY <1>1, <1>3 DEF Init, Loads
<1> QED BY <1>2, <1>3

LEMMA HarmStays == HarmInv /\ [Next]_vars => HarmInv'
<1> SUFFICES ASSUME HarmInv, [Next]_vars PROVE HarmInv' OBVIOUS
<1> USE DEF HarmInv, Away, Started, Unsound, BadEditsDoNoHarm
<1>1. CASE UNCHANGED vars BY <1>1 DEF vars, Loads
<1>2. CASE Finished BY <1>1, <1>2 DEF Finished
<1>3. ASSUME NEW d \in DOMAIN Documents \cup {None}, Edit(d) PROVE HarmInv' BY <1>3 DEF Edit, world, Loads
<1>4. CASE OpenFails BY <1>4 DEF OpenFails, world, Loads
<1>5. CASE Stat BY <1>5 DEF Stat, world, Loads
<1>6. CASE Read BY <1>6 DEF Read, world, Loads
<1>7. CASE ReadKeepsOld BY <1>7 DEF ReadKeepsOld, world, loading, Loads
<1>8. CASE FirstReadFails BY <1>8 DEF FirstReadFails, world, FirstDocument, Loads
<1>9. CASE Settled BY <1>9 DEF Settled, loading, Loads
<1>10. CASE Again BY <1>10 DEF Again, Restarts, Loads
<1>11. CASE Anew BY <1>11 DEF Anew, Restarts, Forgotten
<1> QED
  BY StepsOfTheProcess, <1>1, <1>2, <1>3, <1>4, <1>5, <1>6, <1>7, <1>8, <1>9, <1>10, <1>11 DEF Steps

(* Whatever documents the file gets: a configuration is taken from the     *)
(* process only while the file is away, or when its first was unsound.     *)
THEOREM BadEditsHarmless == Spec => []BadEditsDoNoHarm
<1>1. HarmInv => BadEditsDoNoHarm BY DEF HarmInv
<1> QED BY HarmStart, HarmStays, <1>1, PTL DEF Spec

-----------------------------------------------------------------------------
(* The caches of a read-only worker.                                        *)

(* What is stored is a table, also where it is a worker's.                 *)
Table == NonBlocking => stored = [key \in DOMAIN stored |-> stored[key]]

LEMMA TableStart == Init => Table
<1> SUFFICES ASSUME Init, NonBlocking PROVE stored = [key \in DOMAIN stored |-> stored[key]]
  BY DEF Table
<1>1. PICK d : stored \in {<< >>, Seeded(d)} BY DEF Init, NonBlocking
<1>2. CASE stored = << >> BY <1>2
<1>3. CASE stored = Seeded(d) BY <1>3 DEF Seeded
<1> QED BY <1>1, <1>2, <1>3

(* A worker that may not wait gets no tile that would be stored.           *)
LEMMA NothingMade == ASSUME NEW want, NEW way, NonBlocking PROVE Fetch(want, way).stores = << >>
BY DEF Fetch

LEMMA NothingKept ==
  ASSUME Table, NonBlocking, NEW n, NEW way, FetchTile(n, way) PROVE stored' = stored
<1>1. stored' = Kept(<< >>) BY NothingMade DEF FetchTile
<1>2. DOMAIN << >> = {} OBVIOUS
<1> QED BY <1>1, <1>2 DEF Table, Kept

(* The steps that may store, and all the others.                           *)
LEMMA OnlyFetchingStores == [Next]_vars =>
  /\ frontend' = frontend
  /\ stored' = stored \/ \E n, way : FetchTile(n, way)
<1> SUFFICES ASSUME [Next]_vars
    PROVE frontend' = frontend /\ (stored' = stored \/ \E n, way : FetchTile(n, way))
  OBVIOUS
<1> DEFINE Goal == frontend' = frontend /\ (stored' = stored \/ \E n, way : FetchTile(n, way))
<1>1. CASE UNCHANGED vars BY <1>1 DEF vars
<1>2. CASE UNCHANGED world BY <1>2 DEF world
<1>3. ASSUME NEW d \in DOMAIN Documents \cup {None}, Edit(d) PROVE Goal BY <1>2, <1>3 DEF Edit
<1>4. ASSUME NEW r \in DOMAIN Requests, Accept(r) PROVE Goal BY <1>2, <1>4 DEF Accept
<1>5. CASE Astray \/ OpenFails \/ Stat \/ Read \/ ReadKeepsOld \/ FirstReadFails \/ DispatchRequest
  BY <1>2, <1>5 DEF Astray, OpenFails, Stat, Read, ReadKeepsOld, FirstReadFails, DispatchRequest
<1>6. ASSUME NEW way \in Ways, FetchNext(way) PROVE Goal BY <1>6 DEF FetchNext
<1>7. ASSUME NEW way \in Ways, FetchRest(way) PROVE Goal BY <1>7 DEF FetchRest
<1>8. ASSUME NEW n \in DOMAIN Tiles, NEW way \in Ways, FetchInThread(n, way) PROVE Goal
  BY <1>8 DEF FetchInThread
<1>9. CASE JoinThreads BY <1>2, <1>9, Zenon DEF JoinThreads
<1>10. ASSUME NEW code, Refuse(code) PROVE Goal BY <1>2, <1>10 DEF Refuse
<1>11. ASSUME NEW outcome, Sent(outcome) PROVE Goal BY <1>2, <1>10, <1>11, Zenon DEF Sent
<1>12. ASSUME Die PROVE Goal BY <1>2, <1>12 DEF Die
<1>13. CASE SendTile \/ SendMap BY <1>11, <1>13, Zenon DEF SendTile, SendMap
<1>14. CASE MapWithoutFormat BY <1>10, <1>12, <1>14, Zenon DEF MapWithoutFormat
<1>15. CASE \E said \in DOMAIN Now.says : ForwardMap(said) \/ SendPage(said) \/ SendInfo(said) \/ SendProxied(said)
  BY <1>11, <1>15, Zenon DEF ForwardMap, SendPage, SendInfo, SendProxied
<1>16. CASE NothingToSend \/ RespondToError \/ Cleanup
  BY <1>2, <1>12, <1>16, Zenon DEF NothingToSend, RespondToError, Cleanup
<1>17. CASE Respawn \/ Recycle BY <1>2, <1>17 DEF Respawn, Recycle, Fresh
<1>18. CASE Finished BY <1>1, <1>18 DEF Finished
<1> QED
  BY <1>1, <1>3, <1>4, <1>5, <1>6, <1>7, <1>8, <1>9, <1>13, <1>14, <1>15, <1>16, <1>17, <1>18 DEF Next, Serve

LEMMA TableStays == Table /\ [Next]_vars => Table'
<1> SUFFICES ASSUME Table, [Next]_vars, NonBlocking PROVE stored' = stored
  BY OnlyFetchingStores DEF Table, NonBlocking
<1> QED BY OnlyFetchingStores, NothingKept

(* Whatever is asked of a worker of nginx, whichever document it has and   *)
(* whatever the sources say: it changes no cache.                          *)
THEOREM WorkersReadOnly == Spec => ReadOnlyWorkers
<1>1. Table /\ [Next]_vars => [frontend = "nginx" => stored' = stored]_vars
  BY OnlyFetchingStores, NothingKept DEF NonBlocking
<1> QED BY TableStart, TableStays, <1>1, PTL DEF Spec, ReadOnlyWorkers

-----------------------------------------------------------------------------
(* The least of some numbers.                                               *)

LEMMA LessIsWellFounded == IsWellFoundedOn({pair \in Nat \X Nat : pair[1] < pair[2]}, Nat)
BY NatLessThanWellFounded, Zenon DEF OpToRel

LEMMA LeastOf ==
  ASSUME NEW R, IsWellFoundedOn(R, Nat), NEW T \in SUBSET Nat, T # {}
  PROVE  \E x \in T : \A y \in T : ~(<<y, x>> \in R)
BY WFMin

LEMMA LeastNatural == ASSUME NEW T \in SUBSET Nat, T # {} PROVE \E x \in T : \A y \in T : x <= y
<1>1. PICK x \in T : \A y \in T : ~(<<y, x>> \in {pair \in Nat \X Nat : pair[1] < pair[2]})
  BY LessIsWellFounded, LeastOf, Zenon
<1>2. \A y \in T : ~(y < x) BY <1>1
<1> QED BY <1>2

LEMMA LowestNatural == ASSUME NEW T \in SUBSET Nat, T # {} PROVE Lowest(T) \in T
<1>1. PICK x \in T : \A y \in T : x <= y BY LeastNatural
<1> QED BY <1>1 DEF Lowest

(* One of finitely many values is the least: without its last one, the     *)
(* smallest set that had none would have one.                              *)
LEMMA LeastValue ==
  ASSUME NEW S, IsFiniteSet(S), S # {}, NEW f, \A n \in S : f[n] \in Int
  PROVE  \E m \in S : \A n \in S : f[m] <= f[n]
<1> DEFINE Least(T) == \E m \in T : \A n \in T : f[m] <= f[n]
           Without == {k \in Nat : \E T \in SUBSET S : T # {} /\ Cardinality(T) = k /\ ~Least(T)}
<1>1. CASE Without = {}
  <2>1. S \in SUBSET S /\ Cardinality(S) \in Nat BY FS_CardinalityType
  <2> QED BY <1>1, <2>1
<1>2. CASE Without # {}
  <2>1. PICK k \in Without : \A j \in Without : k <= j BY <1>2, LeastNatural
  <2>2. PICK T \in SUBSET S : T # {} /\ Cardinality(T) = k /\ ~Least(T) OBVIOUS
  <2>3. PICK x \in T : TRUE BY <2>2
  <2> DEFINE U == T \ {x}
  <2>4. IsFiniteSet(T) BY FS_Subset
  <2>5. IsFiniteSet(U) /\ Cardinality(U) = k - 1 /\ Cardinality(U) \in Nat
    BY <2>2, <2>3, <2>4, FS_RemoveElement, FS_CardinalityType
  <2>6. \A n \in T : n = x \/ n \in U OBVIOUS
  <2>7. CASE U = {}
    <3>1. f[x] <= f[x] BY <2>3
    <3>2. \A n \in T : f[x] <= f[n] BY <2>6, <2>7, <3>1
    <3> QED BY <2>2, <2>3, <3>2
  <2>8. CASE U # {}
    <3>1. k - 1 \notin Without BY <2>1, <2>5
    <3>2. Least(U) BY <2>5, <2>8, <3>1
    <3>3. PICK m \in U : \A n \in U : f[m] <= f[n] BY <3>2
    <3>4. f[m] \in Int /\ f[x] \in Int /\ \A n \in T : f[n] \in Int BY <2>3, <3>3
    <3>5. CASE f[m] <= f[x]
      <4>1. \A n \in T : f[m] <= f[n] BY <2>6, <3>3, <3>5
      <4> QED BY <2>2, <3>3, <4>1
    <3>6. CASE f[x] <= f[m]
      <4>1. \A n \in T : f[x] <= f[n] BY <2>6, <3>3, <3>4, <3>6
      <4> QED BY <2>2, <2>3, <4>1
    <3> QED BY <3>4, <3>5, <3>6
  <2> QED BY <2>7, <2>8
<1> QED BY <1>1, <1>2

LEMMA LowestValue ==
  ASSUME NEW S, IsFiniteSet(S), NEW f, \A n \in S : f[n] \in Int, NEW n \in S
  PROVE  Lowest({f[k] : k \in S}) <= f[n]
<1>1. PICK m \in S : \A k \in S : f[m] <= f[k] BY LeastValue
<1> DEFINE T == {f[k] : k \in S}
<1>2. f[m] \in T /\ \A v \in T : f[m] <= v BY <1>1
<1>3. Lowest(T) \in T /\ \A v \in T : Lowest(T) <= v
  <2> HIDE DEF T
  <2> QED BY <1>2 DEF Lowest
<1>4. f[n] \in T OBVIOUS
<1> QED BY <1>3, <1>4

-----------------------------------------------------------------------------
(* What rendering leaves.                                                   *)

PicturesOnly(tiles) == \A k \in DOMAIN tiles : tiles[k].type \in Pictures

LEMMA EncodedType == ASSUME NEW type, NEW image PROVE Good(Encoded(type, image)).value.type = type
BY DEF Good, Encoded

LEMMA BadFails == ASSUME NEW code, code # 0 PROVE Failed(Bad(code))
BY DEF Bad, Failed

LEMMA WrittenIsPicture ==
  ASSUME NEW cfg, NEW t, NEW image, Writable(t.format), ~Failed(WrittenAs(cfg, t, image))
  PROVE  WrittenAs(cfg, t, image).value.type \in Pictures
<1>1. MixedMember(t.format, image).type \in Pictures BY SMT DEF Writable, MixedMember, Pictures
<1>2. Write(t.format, image) \in {PngEncode(image), JpegEncode(image), RawEncode(image), JsonEncode(image)}
  BY <1>1, Zenon DEF Write, Pictures
<1>3. PngEncode(image).value.type = "PNG" /\ JpegEncode(image).value.type = "JPEG"
  BY EncodedType, Zenon DEF PngEncode, JpegEncode
<1>4. ~Failed(RawEncode(image)) => RawEncode(image).value.type = "RAW" BY EncodedType, BadFails DEF RawEncode
<1>5. ~Failed(JsonEncode(image)) => JsonEncode(image).value.type = "JSON" BY EncodedType, BadFails DEF JsonEncode
<1>6. WrittenAs(cfg, t, image) \in {PngEncode(image), JpegEncode(image), RawEncode(image), JsonEncode(image)}
  BY <1>2, Zenon DEF WrittenAs
<1>7. {"PNG", "JPEG", "RAW", "JSON"} \subseteq Pictures BY DEF Pictures
<1> QED BY <1>3, <1>4, <1>5, <1>6, <1>7, Zenon

(* A source that receives takes nothing but pictures.                      *)
Receives(outcome) == Failed(outcome) \/ TheOne(outcome.value.encoded_data).type \in Pictures

LEMMA OnlyPicturesReceived == ASSUME NEW received PROVE Receives(AsPicture(received))
<1>1. CASE Failed(received) BY <1>1, Zenon DEF AsPicture, Receives
<1>2. CASE ~Failed(received) /\ ~IsValidFormat(received.value)
  <2>1. AsPicture(received) = Bad(502) BY <1>2, Zenon DEF AsPicture
  <2> QED BY <2>1, BadFails DEF Receives
<1>3. CASE ~Failed(received) /\ IsValidFormat(received.value)
  <2>1. AsPicture(received) = Good(Received(received.value)) BY <1>3, Zenon DEF AsPicture
  <2>2. TheOne(AsPicture(received).value.encoded_data) = received.value BY <2>1 DEF Good, Received, TheOne
  <2>3. received.value.type \in Pictures BY <1>3 DEF IsValidFormat, HeaderSniff, Pictures
  <2> QED BY <2>2, <2>3 DEF Receives
<1> QED BY <1>1, <1>2, <1>3

LEMMA WmsReceives == ASSUME NEW source, NEW map, NEW answer PROVE Receives(WmsRender(source, map, answer))
BY OnlyPicturesReceived DEF WmsRender

LEMMA TmsReceives == ASSUME NEW source, NEW map, NEW answer PROVE Receives(TmsRender(source, map, answer))
<1> DEFINE received == AsPicture(DoRequest(answer, TmsTile(source, map.grid_link.grid, TileCoords(map, source.flipy))))
           raster == TheOne(received.value.encoded_data).image
           also == Good([received.value EXCEPT !.raw_image = {Raster(raster.w, raster.h, raster.px)}])
<1>1. Receives(received) BY OnlyPicturesReceived
<1>2. TmsRender(source, map, answer) \in {received, Bad(500)} \/
      (~Failed(received) /\ TmsRender(source, map, answer) = also)
  BY Zenon DEF TmsRender
<1>3. Receives(Bad(500)) BY BadFails DEF Receives
<1> HIDE DEF received, raster
<1>4. ~Failed(received) => Receives(also)
  <2> SUFFICES ASSUME ~Failed(received) PROVE Receives(also) OBVIOUS
  <2> DEFINE said == DoRequest(answer, TmsTile(source, map.grid_link.grid, TileCoords(map, source.flipy)))
  <2>1. received = IF Failed(said) THEN said ELSE IF ~IsValidFormat(said.value) THEN Bad(502)
                   ELSE Good(Received(said.value))
    BY Zenon DEF received, AsPicture
  <2>2. received = Good(Received(said.value)) /\ received.value = Received(said.value)
    <3>1. Failed(Bad(502)) BY BadFails
    <3> HIDE DEF said
    <3>2. received = Good(Received(said.value)) BY <2>1, <3>1, Zenon
    <3> QED BY <3>2 DEF Good
  <2>3. also.value.encoded_data = received.value.encoded_data BY <2>2 DEF Good, Received
  <2> QED BY <1>1, <2>3, Zenon DEF Receives
<1> QED BY <1>1, <1>2, <1>3, <1>4, Zenon

LEMMA RenderedArePictures ==
  ASSUME NEW cfg, NEW t, NEW m, NEW answer, Sound(cfg, t.tileset), t.tileset.source # None,
         ~Failed(RenderMetatile(cfg, t, m, answer))
  PROVE  PicturesOnly(RenderMetatile(cfg, t, m, answer).value)
<1> DEFINE ts == t.tileset
           g == t.grid_link.grid
           drawn == RenderMap(cfg, MapOf(t, m), answer)
           whole == IF drawn.value.raw_image # {} THEN Good(TheOne(drawn.value.raw_image))
                    ELSE Decode(TheOne(drawn.value.encoded_data))
           mark == IF ts.watermark = None THEN {} ELSE {Filled(g.tile_sx, g.tile_sy, ts.watermark)}
           views == Split(g, whole.value, MetaSize(g, m, ts.metasize), ts.metabuffer, mark)
           tiles == [p \in DOMAIN views |-> IF Failed(views[p]) THEN views[p] ELSE WrittenAs(cfg, ts, views[p].value)]
           bad == {p \in DOMAIN tiles : Failed(tiles[p])}
           sent == [p \in MetaTiles(g, m, ts.metasize) |-> TheOne(drawn.value.encoded_data)]
           made == RenderMetatile(cfg, t, m, answer)
<1>1. made = IF Failed(drawn) THEN drawn
             ELSE IF ts.format = None THEN Good(sent)
             ELSE IF Failed(whole) THEN whole
             ELSE IF bad # {} THEN Bad(500)
             ELSE Good([p \in DOMAIN tiles |-> tiles[p].value])
  BY Zenon DEF RenderMetatile
<1>2. ~Failed(made) /\ Failed(Bad(500)) BY BadFails
<1>3. CASE ts.format = None
  <2>1. cfg.sources[ts.source].type \in {"wms", "tms"} BY <1>3 DEF Sound
  <2>2. MapOf(t, m).tileset = ts BY DEF MapOf, Map
  <2>3. drawn = WmsRender(cfg.sources[ts.source], MapOf(t, m), answer)
        \/ drawn = TmsRender(cfg.sources[ts.source], MapOf(t, m), answer)
    BY <2>1, <2>2 DEF RenderMap
  <2>4. Receives(drawn) BY <2>3, WmsReceives, TmsReceives, Zenon
  <2> HIDE DEF drawn, made, whole, bad, tiles
  <2>5. ~Failed(drawn) BY <1>1, <1>2, Zenon
  <2>6. made = Good(sent) BY <1>1, <1>3, <2>5, Zenon
  <2>7. TheOne(drawn.value.encoded_data).type \in Pictures BY <2>4, <2>5 DEF Receives
  <2>8. PicturesOnly(sent) BY <2>7 DEF PicturesOnly
  <2> HIDE DEF sent
  <2> QED BY <2>6, <2>8 DEF Good, made
<1>4. CASE ts.format # None
  <2>1. Writable(ts.format) BY <1>4 DEF Sound
  <2> DEFINE values == [p \in DOMAIN tiles |-> tiles[p].value]
  <2>2. \A p \in DOMAIN tiles : Failed(tiles[p]) \/ tiles[p].value.type \in Pictures
    <3> HIDE DEF views
    <3> SUFFICES ASSUME NEW p \in DOMAIN views, ~Failed(tiles[p]) PROVE tiles[p].value.type \in Pictures OBVIOUS
    <3>1. tiles[p] = WrittenAs(cfg, ts, views[p].value) OBVIOUS
    <3> HIDE DEF tiles
    <3> QED BY <2>1, <3>1, WrittenIsPicture
  <2> HIDE DEF drawn, made, whole, tiles
  <2>3. bad = {} /\ made = Good(values) BY <1>1, <1>2, <1>4, Zenon
  <2>4. PicturesOnly(values) BY <2>2, <2>3 DEF PicturesOnly
  <2> HIDE DEF values
  <2> QED BY <2>3, <2>4 DEF Good, made
<1> QED BY <1>3, <1>4

LEMMA StoredArePictures ==
  ASSUME NEW cfg, NEW t, NEW answer, Sound(cfg, t.tileset), t.tileset.source # None
  PROVE  PicturesOnly(Work(cfg, t, answer).stores)
<1> DEFINE made == RenderMetatile(cfg, t, BlockOf(t), answer)
           data == made.value
           key == [p \in DOMAIN data |-> CacheKey(cfg, TileOfBlock(t, p))]
<1>1. CASE Failed(made)
  <2>1. Work(cfg, t, answer).stores = << >> BY <1>1 DEF Work
  <2> QED BY <2>1 DEF PicturesOnly
<1>2. CASE ~Failed(made)
  <2>1. Work(cfg, t, answer).stores = Stores(cfg, t, data)
    <3> HIDE DEF made
    <3>1. Work(cfg, t, answer)
            = [code |-> 0, stores |-> Tabled(Stores(cfg, t, data)),
               alone |-> IF DOMAIN data = {[i |-> 0, j |-> 0]} THEN data[[i |-> 0, j |-> 0]] ELSE NoData]
      BY <1>2, Zenon DEF Work, made
    <3> QED BY <3>1 DEF Tabled
  <2>2. PicturesOnly(data) BY <1>2, RenderedArePictures
  <2> HIDE DEF made
  <2>3. \A k \in DOMAIN Stores(cfg, t, data) : \E p \in DOMAIN data : Stores(cfg, t, data)[k] = data[p]
    <3>1. Stores(cfg, t, data)
            = [k \in {key[p] : p \in DOMAIN data} |-> data[CHOOSE p \in DOMAIN data : key[p] = k]]
      BY Zenon DEF Stores
    <3> HIDE DEF data, key
    <3>2. \A k \in {key[p] : p \in DOMAIN data} : (CHOOSE p \in DOMAIN data : key[p] = k) \in DOMAIN data OBVIOUS
    <3> QED BY <3>1, <3>2
  <2> QED BY <2>1, <2>2, <2>3 DEF PicturesOnly
<1> QED BY <1>1, <1>2

(* What the table says a request wants.                                    *)
LEMMA WhatIsWanted ==
  ASSUME NEW d \in DOMAIN Documents, Site[d] # {}, NEW r \in DOMAIN Requests, NEW n \in DOMAIN Handled(d, r).wants
  PROVE  /\ Len(Handled(d, r).wants) \in Nat /\ DOMAIN Handled(d, r).wants = 1 .. Len(Handled(d, r).wants)
         /\ n \in Nat
         /\ \E t : /\ Handled(d, r).wants[n] = Wanted(Cfg(d), t) /\ Handled(d, r).wants[n].tile = t
                 /\ Sound(Cfg(d), t.tileset) /\ OnItsGrid(t)
<1> DEFINE site == TheOne(Site[d])
           cfg == site.cfg
           handling == site.handling[r]
<1>1. site \in Site[d]
  <2>1. \E s : s \in Site[d] OBVIOUS
  <2> QED BY <2>1, Zenon DEF TheOne
<1>2. Site[d] = SiteOf(Documents[d], Requests) BY ServerAssumption
<1>3. PICK c \in Load(Documents[d]) :
        site = [cfg |-> c, handling |-> Tabled([q \in DOMAIN Requests |-> Handling(c, Requests[q])])]
  <2> HIDE DEF site
  <2> QED BY <1>1, <1>2, Zenon DEF SiteOf
<1>4. cfg = c /\ handling = Handling(c, Requests[r])
  <2> HIDE DEF site
  <2> QED BY <1>3 DEF Tabled
<1>5. Handled(d, r) = handling /\ Cfg(d) = cfg BY DEF Handled, Cfg
<1>6. /\ Len(handling.wants) \in Nat /\ DOMAIN handling.wants = 1 .. Len(handling.wants)
      /\ Sound(cfg, handling.wants[n].tile.tileset) /\ OnItsGrid(handling.wants[n].tile)
  <2>1. n \in DOMAIN handling.wants BY <1>5
  <2> HIDE DEF site
  <2> QED BY <1>1, <2>1, TilesetAssumption, Zenon
<1>7. \E t : handling.wants[n] = Wanted(c, t) /\ handling.wants[n].tile = t
  <2> DEFINE dispatched == Dispatch(c, Requests[r])
             tiles == TilesToFetch(dispatched.parsed.value)
  <2>1. \/ handling.wants = << >>
        \/ handling.wants = [m \in DOMAIN tiles |-> Wanted(c, tiles[m])]
    BY <1>4 DEF Handling, Tabled
  <2>2. n \in DOMAIN handling.wants BY <1>5
  <2> HIDE DEF handling, tiles
  <2>3. handling.wants[n] = Wanted(c, tiles[n]) BY <2>1, <2>2
  <2>4. Wanted(c, tiles[n]).tile = tiles[n] BY DEF Wanted
  <2> QED BY <2>3, <2>4
<1> HIDE DEF handling, site
<1> QED BY <1>4, <1>5, <1>6, <1>7

LEMMA WorkStoresPictures ==
  ASSUME NEW cfg, NEW t, Sound(cfg, t.tileset), Wanted(cfg, t).work # << >>, NEW answer \in BackendAnswers
  PROVE  PicturesOnly(Wanted(cfg, t).work[answer].stores)
<1>1. Wanted(cfg, t).work
        = IF t.tileset.source = None THEN << >> ELSE [a \in BackendAnswers |-> Work(cfg, t, a)]
  BY DEF Wanted, Tabled
<1>2. t.tileset.source # None /\ Wanted(cfg, t).work[answer] = Work(cfg, t, answer) BY <1>1
<1> QED BY <1>2, StoredArePictures, Zenon

LEMMA FetchStoresPictures ==
  ASSUME NEW cfg, NEW t, Sound(cfg, t.tileset), NEW way
  PROVE  PicturesOnly(Fetch(Wanted(cfg, t), way).stores)
<1> DEFINE want == Wanted(cfg, t)
           answer == IF way \in BackendAnswers THEN way ELSE "picture"
<1>1. answer \in BackendAnswers BY DEF BackendAnswers
<1>2. Fetch(want, way).stores = << >>
      \/ (want.work # << >> /\ Fetch(want, way).stores = want.work[answer].stores)
  <2> HIDE DEF want
  <2> QED BY DEF Fetch
<1>3. PicturesOnly(<< >>) BY DEF PicturesOnly
<1> HIDE DEF answer
<1> QED BY <1>1, <1>2, <1>3, WorkStoresPictures, Zenon

LEMMA KeptArePictures ==
  ASSUME NEW tiles, PicturesOnly(tiles), OnlyPicturesAreKept, stored' = Kept(tiles) PROVE OnlyPicturesAreKept'
BY DEF OnlyPicturesAreKept, PicturesOnly, Kept

LEMMA SeededPictures ==
  ASSUME NEW d \in DOMAIN Documents, Site[d] # {} PROVE PicturesOnly(Seeded(d))
<1> DEFINE works == {want.work : want \in UNION {{Handled(d, r).wants[n] : n \in DOMAIN Handled(d, r).wants} :
                                                  r \in Asking[d]}}
           held == {work["picture"].stores : work \in works \ {<< >>}}
<1>1. \A tiles \in held : PicturesOnly(tiles)
  <2> SUFFICES ASSUME NEW work \in works, work # << >> PROVE PicturesOnly(work["picture"].stores)
    BY Zenon DEF held
  <2>1. PICK r \in Asking[d] : \E n \in DOMAIN Handled(d, r).wants : work = Handled(d, r).wants[n].work OBVIOUS
  <2>2. r \in DOMAIN Requests BY ServerAssumption
  <2>3. PICK n \in DOMAIN Handled(d, r).wants : work = Handled(d, r).wants[n].work BY <2>1
  <2>4. PICK t : Handled(d, r).wants[n] = Wanted(Cfg(d), t) /\ Sound(Cfg(d), t.tileset) BY <2>2, WhatIsWanted, Zenon
  <2>5. "picture" \in BackendAnswers BY DEF BackendAnswers
  <2> HIDE DEF works
  <2> QED BY <2>3, <2>4, <2>5, WorkStoresPictures, Zenon
<1>2. Seeded(d) = [key \in UNION {DOMAIN tiles : tiles \in held} |-> (CHOOSE tiles \in held : key \in DOMAIN tiles)[key]]
  BY Zenon DEF Seeded
<1> HIDE DEF held
<1>3. \A key \in DOMAIN Seeded(d) : \E tiles \in held : key \in DOMAIN tiles /\ Seeded(d)[key] = tiles[key]
  <2> SUFFICES ASSUME NEW key \in UNION {DOMAIN tiles : tiles \in held}
      PROVE \E tiles \in held : key \in DOMAIN tiles /\ (CHOOSE T \in held : key \in DOMAIN T)[key] = tiles[key]
    BY <1>2
  <2>1. (CHOOSE T \in held : key \in DOMAIN T) \in held /\ key \in DOMAIN (CHOOSE T \in held : key \in DOMAIN T)
    OBVIOUS
  <2> QED BY <2>1
<1> QED BY <1>1, <1>3 DEF PicturesOnly

-----------------------------------------------------------------------------
(* What is kept, and for how long an answer may be.                         *)

(* The configuration is one of the documents that load; a request is being *)
(* worked on; what was fetched is some of what it wants; and where errors  *)
(* are told, and where answers do not come from tiles, there is an error   *)
(* or no tile was asked for.                                               *)
AsksTile == config # None /\ Now.parsed.value.type = "GET_TILE"
Documented ==
  /\ file.doc \in DOMAIN Documents \cup {None}
  /\ config # None => config \in DOMAIN Documents /\ Site[config] # {}
Working == pc \in {"dispatch", "fetch", "rest"} => config # None
Requested == pc # "idle" => request \in DOMAIN Requests
Gotten ==
  /\ IsFiniteSet(DOMAIN got)
  /\ pc \in {"load", "read", "dispatch"} => DOMAIN got = {}
  /\ DOMAIN got # {} => config # None /\ DOMAIN got \subseteq DOMAIN Now.wants
Sorry == {"refuse", "respond", "forward", "page", "info", "proxy"}
Complained == pc \in Sorry => error # 0 \/ ~AsksTile
KeptInv ==
  Documented /\ Working /\ Requested /\ Gotten /\ Complained /\ OnlyPicturesAreKept /\ NothingOutlivesItsTiles

LEMMA KeptStart == Init => KeptInv
<1> SUFFICES ASSUME Init PROVE KeptInv OBVIOUS
<1> USE DEF Init
<1>1. file.doc \in DOMAIN Documents BY ServerAssumption
<1>2. Documented BY <1>1 DEF Documented, Loads
<1>3. Working /\ Requested /\ Complained /\ NothingOutlivesItsTiles
  BY DEF Working, Requested, Complained, Sorry, NothingOutlivesItsTiles
<1>4. got = << >> /\ DOMAIN << >> = {} OBVIOUS
<1>5. Gotten BY <1>4, FS_EmptySet DEF Gotten
<1>6. stored = << >> \/ (Loads(file.doc) /\ stored = Seeded(file.doc)) BY <1>1
<1>7. PicturesOnly(stored)
  <2>1. CASE stored = << >> BY <2>1 DEF PicturesOnly
  <2>2. CASE Loads(file.doc) /\ stored = Seeded(file.doc) BY <1>1, <2>2, SeededPictures DEF Loads
  <2> QED BY <1>6, <2>1, <2>2
<1> QED BY <1>2, <1>3, <1>5, <1>7 DEF KeptInv, OnlyPicturesAreKept, PicturesOnly

LEMMA CodeOfReply == ASSUME NEW code, NEW answer
  PROVE  Reply(code, answer).code = code /\ Reply(code, answer).expires = answer.expires
BY DEF Reply

(* A step in the course of a request that fetches nothing.                 *)
LEMMA Moved ==
  ASSUME KeptInv, pc # "idle", UNCHANGED <<file, config, request, got, stored>>,
         pc' \in {"dispatch", "fetch", "rest"} => config # None,
         pc' \in {"load", "read", "dispatch"} => DOMAIN got = {},
         pc' \in Sorry => error' # 0 \/ ~AsksTile,
         pc' = "cleanup" => NothingOutlivesItsTiles'
  PROVE  KeptInv'
<1>1. Now' = Now BY DEF Now
<1>2. AsksTile' = AsksTile BY <1>1 DEF AsksTile
<1>3. Documented' BY DEF KeptInv, Documented
<1>4. Working' /\ Requested' BY DEF KeptInv, Working, Requested
<1>5. Gotten' BY <1>1 DEF KeptInv, Gotten
<1>6. Complained' BY <1>2 DEF Complained
<1>7. OnlyPicturesAreKept' BY DEF KeptInv, OnlyPicturesAreKept
<1>8. NothingOutlivesItsTiles'
  <2>1. pc' # "cleanup" => NothingOutlivesItsTiles' BY DEF NothingOutlivesItsTiles
  <2> QED BY <2>1
<1> QED BY <1>3, <1>4, <1>5, <1>6, <1>7, <1>8 DEF KeptInv

(* A step after which nothing is fetched yet, or any more.                 *)
LEMMA Emptied ==
  ASSUME KeptInv, Documented', UNCHANGED stored, got' = << >> \/ (DOMAIN got = {} /\ got' = got),
         pc' \in {"idle", "dead", "astray", "load", "dispatch"},
         pc' = "dispatch" => config' # None, pc' # "idle" => request' \in DOMAIN Requests
  PROVE  KeptInv'
<1>1. DOMAIN got' = {} OBVIOUS
<1>2. Working' /\ Requested' BY DEF Working, Requested
<1>3. Gotten' BY <1>1, FS_EmptySet DEF Gotten
<1>4. Complained' BY DEF Complained, Sorry
<1>5. OnlyPicturesAreKept' BY DEF KeptInv, OnlyPicturesAreKept
<1>6. NothingOutlivesItsTiles' BY DEF NothingOutlivesItsTiles
<1> QED BY <1>2, <1>3, <1>4, <1>5, <1>6 DEF KeptInv

(* Whatever is fetched, for whichever of the tiles.                        *)
LEMMA FetchKeeps ==
  ASSUME KeptInv, pc \in {"fetch", "rest"}, NEW n \in DOMAIN Tiles, NEW way, FetchTile(n, way),
         UNCHANGED <<file, config, pc, request>>
  PROVE  KeptInv'
<1> USE DEF KeptInv
<1>1. config \in DOMAIN Documents /\ config # None /\ Site[config] # {} /\ request \in DOMAIN Requests
  BY DEF Working, Requested, Documented
<1>2. n \in DOMAIN Handled(config, request).wants BY DEF Tiles, Now
<1>3. PICK t : Now.wants[n] = Wanted(Cfg(config), t) /\ Sound(Cfg(config), t.tileset)
  BY <1>1, <1>2, WhatIsWanted, Zenon DEF Now
<1> DEFINE f == Fetch(Now.wants[n], way)
<1>4. PicturesOnly(f.stores) BY <1>3, FetchStoresPictures, Zenon
<1> HIDE DEF f
<1>5. stored' = Kept(f.stores) /\ DOMAIN got' = DOMAIN got \cup {n} BY Zenon DEF FetchTile, f
<1>6. OnlyPicturesAreKept' BY <1>4, <1>5, KeptArePictures
<1>7. Now' = Now BY DEF Now
<1>8. Gotten'
  <2>1. IsFiniteSet(DOMAIN got') BY <1>5, FS_AddElement DEF Gotten
  <2>2. DOMAIN got' \subseteq DOMAIN Now.wants
    <3>1. n \in DOMAIN Now.wants BY <1>2 DEF Now
    <3>2. DOMAIN got \subseteq DOMAIN Now.wants BY DEF Gotten
    <3> QED BY <1>5, <3>1, <3>2
  <2> QED BY <1>1, <1>7, <2>1, <2>2 DEF Gotten
<1>9. Documented' /\ Working' /\ Requested' BY DEF Documented, Working, Requested
<1>10. Complained' /\ NothingOutlivesItsTiles' BY DEF Complained, Sorry, NothingOutlivesItsTiles
<1> QED BY <1>6, <1>8, <1>9, <1>10

(* What is wanted for a tile are the tiles it is made of.                  *)
LEMMA WantsOfTile ==
  ASSUME NEW d \in DOMAIN Documents, Site[d] # {}, NEW r \in DOMAIN Requests, NEW n \in DOMAIN Handled(d, r).wants,
         Handled(d, r).parsed.value.type = "GET_TILE"
  PROVE  LET tiles == Handled(d, r).parsed.value.tiles IN n \in DOMAIN tiles /\ Handled(d, r).wants[n].tile = tiles[n]
<1> DEFINE site == TheOne(Site[d])
           handling == Handled(d, r)
<1>1. site \in Site[d]
  <2>1. \E s : s \in Site[d] OBVIOUS
  <2> QED BY <2>1, Zenon DEF TheOne
<1>2. Site[d] = SiteOf(Documents[d], Requests) BY ServerAssumption
<1>3. PICK c \in Load(Documents[d]) :
        site = [cfg |-> c, handling |-> Tabled([q \in DOMAIN Requests |-> Handling(c, Requests[q])])]
  <2> HIDE DEF site
  <2> QED BY <1>1, <1>2, Zenon DEF SiteOf
<1>4. handling = Handling(c, Requests[r])
  <2>1. handling = site.handling[r] BY DEF Handled
  <2> HIDE DEF site, handling
  <2> QED BY <1>3, <2>1 DEF Tabled
<1> DEFINE parsed == Dispatch(c, Requests[r]).parsed
           tiles == TilesToFetch(parsed.value)
<1>5. handling.parsed = parsed /\ (handling.wants = << >> \/ handling.wants = [m \in DOMAIN tiles |-> Wanted(c, tiles[m])])
  <2> HIDE DEF handling
  <2> QED BY <1>4 DEF Handling, Tabled
<1>6. parsed.value.type = "GET_TILE" BY <1>5
<1> HIDE DEF parsed
<1>7. tiles = parsed.value.tiles BY <1>6 DEF TilesToFetch
<1>8. n \in DOMAIN handling.wants OBVIOUS
<1> HIDE DEF handling, tiles
<1>9. n \in DOMAIN tiles /\ handling.wants[n] = Wanted(c, tiles[n]) BY <1>5, <1>8
<1>10. handling.wants[n].tile = tiles[n] BY <1>9 DEF Wanted
<1> QED BY <1>5, <1>7, <1>9, <1>10 DEF handling

LEMMA TileAnswer ==
  ASSUME NEW cfg, NEW parsed, NEW tiles, ~Failed(GetTileAnswer(cfg, parsed, tiles))
  PROVE  GetTileAnswer(cfg, parsed, tiles).value.expires
           = ExpiresWithAny([n \in DOMAIN parsed.tiles |-> parsed.tiles[n].tileset],
                            {n \in DOMAIN tiles : ~tiles[n].nodata})
<1> DEFINE with == {n \in DOMAIN tiles : ~tiles[n].nodata}
           first == Lowest(with)
           own == parsed.tiles[first].tileset.format
           format == IF Cardinality(with) = 1 THEN own
                     ELSE IF parsed.format # None THEN parsed.format
                     ELSE IF own # None THEN own ELSE cfg.default_format
           order == InOrder(with, <)
           merged == MergeAll([n \in DOMAIN order |-> Decode(tiles[order[n]].data)])
           data == IF Cardinality(with) = 1 THEN Good(tiles[first].data)
                   ELSE IF Failed(merged) THEN Bad(500) ELSE Write(format, merged.value)
           sooner == ExpiresWithAny([n \in DOMAIN parsed.tiles |-> parsed.tiles[n].tileset], with)
           answer == GetTileAnswer(cfg, parsed, tiles)
<1>1. answer = IF with = {} THEN Bad(404)
               ELSE IF Failed(data) THEN data
               ELSE Good(Answer(data.value, ContentType(format, data.value), sooner))
  BY Zenon DEF GetTileAnswer
<1>2. Failed(Bad(404)) /\ ~Failed(answer) BY BadFails
<1> HIDE DEF with, data, format, sooner, answer
<1>3. answer = Good(Answer(data.value, ContentType(format, data.value), sooner)) BY <1>1, <1>2, Zenon
<1>4. answer.value.expires = sooner BY <1>3 DEF Good, Answer
<1> QED BY <1>4 DEF answer, sooner, with

LEMMA TileSentInTime ==
  ASSUME KeptInv, AsksTile, Sent(GetTileAnswer(Cfg(config), Now.parsed.value, got)), pc' = "cleanup",
         pc \in {"fetch", "rest"}
  PROVE  NothingOutlivesItsTiles'
<1> DEFINE parsed == Now.parsed.value
           tilesets == [n \in DOMAIN parsed.tiles |-> parsed.tiles[n].tileset]
           with == {n \in DOMAIN got : ~got[n].nodata}
           answer == GetTileAnswer(Cfg(config), parsed, got)
<1>1. ~Failed(answer) /\ reply' = Reply(200, answer.value) /\ UNCHANGED <<config, request, got>>
  BY Zenon DEF Sent, Refuse, loading
<1>2. Now' = Now /\ Tiles' = Tiles BY <1>1 DEF Now, Tiles
<1>3. reply'.expires = ExpiresWithAny(tilesets, with)
  <2>1. reply'.expires = answer.value.expires
    <3> HIDE DEF answer
    <3> QED BY <1>1, CodeOfReply
  <2>2. ~Failed(GetTileAnswer(Cfg(config), parsed, got)) BY <1>1
  <2> HIDE DEF parsed
  <2>3. answer.value.expires = ExpiresWithAny(tilesets, with) BY <2>2, TileAnswer
  <2> QED BY <2>1, <2>3, Zenon
<1>4. ASSUME NEW n \in with
      PROVE  /\ n \in DOMAIN tilesets /\ tilesets[n] = Tiles[n].tileset
             /\ Expires(tilesets[n]) \in Int
  <2>1. config \in DOMAIN Documents /\ Site[config] # {} /\ request \in DOMAIN Requests
        /\ n \in DOMAIN Handled(config, request).wants
    BY DEF KeptInv, Documented, Requested, Gotten, AsksTile, Now
  <2>2. parsed = Handled(config, request).parsed.value /\ parsed.type = "GET_TILE" BY DEF Now, AsksTile
  <2>3. n \in DOMAIN parsed.tiles /\ Handled(config, request).wants[n].tile = parsed.tiles[n]
    BY <2>1, <2>2, WantsOfTile, Zenon
  <2>4. PICK t : Handled(config, request).wants[n] = Wanted(Cfg(config), t) /\ Sound(Cfg(config), t.tileset)
    BY <2>1, WhatIsWanted, Zenon
  <2>5. t = parsed.tiles[n] BY <2>3, <2>4 DEF Wanted
  <2>6. Tiles[n] = parsed.tiles[n] BY <2>1, <2>3 DEF Tiles, Now
  <2>7. Expires(t.tileset) \in Int BY <2>4 DEF Expires, Sound
  <2> HIDE DEF parsed
  <2> QED BY <2>3, <2>5, <2>6, <2>7
<1>5. IsFiniteSet(with) BY FS_Subset DEF KeptInv, Gotten
<1> HIDE DEF with, tilesets
<1>6. ASSUME NEW n \in with PROVE reply'.expires <= Expires(Tiles[n].tileset)
  <2> DEFINE times == [m \in with |-> Expires(tilesets[m])]
  <2>1. \A m \in with : times[m] = Expires(tilesets[m]) /\ times[m] \in Int BY <1>4
  <2>2. {times[m] : m \in with} = {Expires(tilesets[m]) : m \in with} BY <2>1
  <2> HIDE DEF times
  <2>3. Lowest({times[m] : m \in with}) <= times[n] BY <1>5, <2>1, LowestValue
  <2>4. ExpiresWithAny(tilesets, with) = Lowest({times[m] : m \in with}) BY <2>2, Zenon DEF ExpiresWithAny
  <2> QED BY <1>3, <1>4, <2>1, <2>3, <2>4
<1>7. \A n \in DOMAIN got : ~got[n].nodata => n \in with BY DEF with
<1>8. \A n \in DOMAIN got' : ~got'[n].nodata => reply'.expires <= Expires(Tiles'[n].tileset)
  <2>1. got' = got BY <1>1
  <2> QED BY <1>2, <1>6, <1>7, <2>1, Zenon
<1> QED BY <1>8, Zenon DEF NothingOutlivesItsTiles

LEMMA KeptStays == KeptInv /\ HarmInv /\ [Next]_vars => KeptInv'
<1> SUFFICES ASSUME KeptInv, HarmInv, [Next]_vars PROVE KeptInv' OBVIOUS
<1>1. CASE UNCHANGED vars
  <2>1. Now' = Now /\ Tiles' = Tiles BY <1>1 DEF vars, Now, Tiles
  <2>2. Documented' /\ Working' /\ Requested' /\ Gotten'
    BY <1>1, <2>1 DEF vars, KeptInv, Documented, Working, Requested, Gotten
  <2>3. Complained' /\ OnlyPicturesAreKept'
    BY <1>1, <2>1 DEF vars, KeptInv, Complained, AsksTile, OnlyPicturesAreKept
  <2>4. NothingOutlivesItsTiles'
    BY <1>1, <2>1, Zenon DEF vars, KeptInv, NothingOutlivesItsTiles
  <2> QED BY <2>2, <2>3, <2>4 DEF KeptInv
<1>2. ASSUME NEW d \in DOMAIN Documents \cup {None}, Edit(d) PROVE KeptInv'
  <2>1. pc \in {"load", "read", "idle"} /\ UNCHANGED <<config, pc, request, error, got, stored>> /\ file'.doc = d
    BY <1>2 DEF Edit, world
  <2>2. Now' = Now BY <2>1 DEF Now
  <2>3. Documented' /\ Working' /\ Requested' /\ Gotten' /\ OnlyPicturesAreKept'
    BY <2>1, <2>2 DEF KeptInv, Documented, Working, Requested, Gotten, OnlyPicturesAreKept
  <2>4. Complained' /\ NothingOutlivesItsTiles' BY <2>1 DEF Complained, Sorry, NothingOutlivesItsTiles
  <2> QED BY <2>3, <2>4 DEF KeptInv
<1>3. ASSUME NEW r \in DOMAIN Requests, Accept(r) PROVE KeptInv'
  <2>1. UNCHANGED <<config, file, stored>> /\ got' = << >> /\ request' = r /\ pc' \in {"astray", "load", "dispatch"}
    BY <1>3 DEF Accept, world, loading
  <2>2. pc' = "dispatch" => config # None BY <1>3 DEF Accept, HarmInv, Started
  <2>3. Documented' BY <2>1 DEF KeptInv, Documented
  <2> QED BY <2>1, <2>2, <2>3, Emptied
<1>4. CASE Astray
  <2>1. pc = "astray" /\ UNCHANGED <<file, config, request, got, stored>> /\ pc' \in {"dead", "cleanup"}
        /\ (pc' = "cleanup" => reply' = Undefined)
    BY <1>4 DEF Astray, world, loading
  <2>2. Undefined.code # 200 BY CodeOfReply DEF Undefined, Bare
  <2>3. pc' = "cleanup" => NothingOutlivesItsTiles' BY <2>1, <2>2 DEF NothingOutlivesItsTiles
  <2> QED BY <2>1, <2>3, Moved DEF Sorry
<1>5. CASE OpenFails \/ FirstReadFails
  <2>1. pc \in {"load", "read"} /\ UNCHANGED <<file, config, request, got, stored>> /\ pc' = "respond" /\ error' = 500
    BY <1>5 DEF OpenFails, FirstReadFails, world
  <2> QED BY <2>1, Moved
<1>6. CASE Stat \/ ReadKeepsOld
  <2>1. pc \in {"load", "read"} /\ UNCHANGED <<file, config, request, got, stored>> /\ pc' \in {"read", "dispatch"}
        /\ (pc' = "dispatch" => config # None)
    BY <1>6 DEF Stat, ReadKeepsOld, world, loading
  <2>2. DOMAIN got = {} BY <2>1 DEF KeptInv, Gotten
  <2> QED BY <2>1, <2>2, Moved DEF Sorry
<1>7. CASE Read
  <2>1. pc = "read" /\ UNCHANGED <<file, request, got, stored>> /\ config' = file.doc /\ pc' = "dispatch" /\ Loads(file.doc)
    BY <1>7 DEF Read, world
  <2>2. DOMAIN got = {} /\ request \in DOMAIN Requests BY <2>1 DEF KeptInv, Gotten, Requested
  <2>3. Documented' BY <2>1 DEF KeptInv, Documented, Loads
  <2>4. config' # None BY <2>1 DEF Loads
  <2> QED BY <2>1, <2>2, <2>3, <2>4, Emptied
<1>8. CASE DispatchRequest
  <2>1. pc = "dispatch" /\ UNCHANGED <<file, config, request, got, stored>> /\ error' = Now.parsed.code
        /\ pc' \in {IF Failed(Now.parsed) THEN "refuse" ELSE Next1(Now.parsed.value), "dead"}
    BY <1>8, Zenon DEF DispatchRequest, world, loading
  <2>2. config # None /\ DOMAIN got = {} BY <2>1 DEF KeptInv, Working, Gotten
  <2>3. AsksTile => Next1(Now.parsed.value) = "fetch" BY DEF Next1, AsksTile
  <2>4. pc' \in Sorry => error' # 0 \/ ~AsksTile BY <2>1, <2>3 DEF Sorry, Failed
  <2>5. AsksTile => pc' # "cleanup" BY <2>1, <2>3
  <2>6. AsksTile' = AsksTile BY <2>1 DEF AsksTile, Now
  <2>7. NothingOutlivesItsTiles' \/ pc' # "cleanup" BY <2>5, <2>6, Zenon DEF NothingOutlivesItsTiles, AsksTile
  <2> QED BY <2>1, <2>2, <2>4, <2>7, Moved
<1>9. ASSUME NEW way \in Ways, FetchNext(way) PROVE KeptInv'
  <2> DEFINE n == Cardinality(DOMAIN got) + 1
  <2>1. pc = "fetch" /\ n \in DOMAIN Tiles /\ FetchTile(n, way) /\ UNCHANGED <<file, config, pc, request>>
    BY <1>9, Zenon DEF FetchNext, Fetching, loading
  <2> HIDE DEF n
  <2> QED BY <2>1, FetchKeeps
<1>10. ASSUME NEW way \in Ways, FetchRest(way) PROVE KeptInv'
  <2>1. pc = "rest" /\ Rest # {} /\ FetchTile(Lowest(Rest), way) /\ UNCHANGED <<file, config, pc, request>>
    BY <1>10, Zenon DEF FetchRest, loading
  <2>2. config \in DOMAIN Documents /\ Site[config] # {} /\ request \in DOMAIN Requests
    BY <2>1 DEF KeptInv, Documented, Working, Requested
  <2>3. DOMAIN Tiles \subseteq Nat BY <2>2, WhatIsWanted DEF Tiles, Now
  <2>4. Lowest(Rest) \in Rest BY <2>1, <2>3, LowestNatural DEF Rest
  <2>5. Lowest(Rest) \in DOMAIN Tiles BY <2>4 DEF Rest
  <2> QED BY <2>1, <2>5, FetchKeeps
<1>11. ASSUME NEW n \in DOMAIN Tiles, NEW way \in Ways, FetchInThread(n, way) PROVE KeptInv'
  <2>1. pc = "fetch" /\ FetchTile(n, way) /\ UNCHANGED <<file, config, pc, request>>
    BY <1>11, Zenon DEF FetchInThread, Fetching, loading
  <2> QED BY <2>1, FetchKeeps
<1>12. CASE JoinThreads
  <2>1. pc = "fetch" /\ pc' = "rest" /\ UNCHANGED <<file, config, request, got, stored>>
    BY <1>12, Zenon DEF JoinThreads, Fetching, world, loading
  <2>2. config # None BY <2>1 DEF KeptInv, Working
  <2> QED BY <2>1, <2>2, Moved DEF Sorry
<1>13. ASSUME NEW code, Refuse(code), code # 0, pc # "idle" PROVE KeptInv'
  <2>1. pc' = "respond" /\ error' = code /\ UNCHANGED <<file, config, request, got, stored>>
    BY <1>13 DEF Refuse, world, loading
  <2> QED BY <1>13, <2>1, Moved
<1>14. ASSUME Die, pc # "idle" PROVE KeptInv'
  <2>1. pc' = "dead" /\ UNCHANGED <<file, config, request, got, stored>> BY <1>14 DEF Die, world, loading
  <2> QED BY <1>14, <2>1, Moved DEF Sorry
<1>15. ASSUME NEW outcome, Sent(outcome), pc # "idle", pc' = "cleanup" => NothingOutlivesItsTiles' PROVE KeptInv'
  <2>1. CASE Failed(outcome) /\ Refuse(outcome.code) BY <1>13, <1>15, <2>1, Zenon DEF Failed
  <2>2. CASE ~Failed(outcome) /\ pc' = "cleanup" /\ UNCHANGED <<world, file, loading, request, got>>
    BY <1>15, <2>2, Moved DEF world, loading, Sorry
  <2> QED BY <1>15, <2>1, <2>2, Zenon DEF Sent
<1>16. ASSUME NEW outcome, Sent(outcome), error # 0 \/ ~AsksTile, pc' = "cleanup" PROVE NothingOutlivesItsTiles'
  <2>1. UNCHANGED <<config, request>> /\ (error' # 0 \/ error' = error)
    BY <1>16, Zenon DEF Sent, Refuse, Failed, loading
  <2>2. AsksTile' = AsksTile BY <2>1 DEF AsksTile, Now
  <2> QED BY <1>16, <2>1, <2>2, Zenon DEF NothingOutlivesItsTiles, AsksTile
<1>17. FetchedAll => pc \in {"fetch", "rest"} /\ config # None BY DEF FetchedAll, KeptInv, Working
<1>18. CASE SendTile
  <2>1. FetchedAll /\ AsksTile /\ Sent(GetTileAnswer(Cfg(config), Now.parsed.value, got))
    BY <1>17, <1>18, Zenon DEF SendTile, AsksTile
  <2>2. pc' = "cleanup" => NothingOutlivesItsTiles' BY <1>17, <2>1, TileSentInTime
  <2>3. pc # "idle" BY <1>17, <2>1
  <2> QED BY <1>15, <2>1, <2>2, <2>3, Zenon
<1>19. CASE SendMap
  <2>1. FetchedAll /\ Now.parsed.value.type = "GET_MAP" /\ Sent(AssembleAnswer(Now.parsed.value, got))
    BY <1>19, Zenon DEF SendMap
  <2>2. ~AsksTile /\ pc # "idle" BY <1>17, <2>1 DEF AsksTile
  <2> QED BY <1>15, <1>16, <2>1, <2>2, Zenon
<1>20. CASE MapWithoutFormat
  <2>1. pc # "idle" BY <1>17, <1>20, Zenon DEF MapWithoutFormat
  <2> QED BY <1>13, <1>14, <1>20, <2>1, Zenon DEF MapWithoutFormat, Failed
<1>21. CASE \E said \in DOMAIN Now.says : ForwardMap(said) \/ SendPage(said) \/ SendInfo(said) \/ SendProxied(said)
  <2>1. PICK outcome : Sent(outcome) BY <1>21, Zenon DEF ForwardMap, SendPage, SendInfo, SendProxied
  <2>2. pc \in Sorry /\ pc # "idle" BY <1>21 DEF ForwardMap, SendPage, SendInfo, SendProxied, Sorry
  <2>3. error # 0 \/ ~AsksTile BY <2>2 DEF KeptInv, Complained
  <2> QED BY <1>15, <1>16, <2>1, <2>2, <2>3, Zenon
<1>22. CASE NothingToSend BY <1>14, <1>22 DEF NothingToSend
<1>23. CASE RespondToError
  <2>1. UNCHANGED <<file, config, request, error, got, stored>> /\ pc' \in {"cleanup", "dead"}
    BY <1>23, Zenon DEF RespondToError, world, loading
  <2>2. (pc \in Sorry /\ pc # "idle") \/ (pc \in {"fetch", "rest"} /\ error # 0) BY <1>23 DEF RespondToError, Sorry
  <2>3. error # 0 \/ ~AsksTile BY <2>2 DEF KeptInv, Complained
  <2>4. AsksTile' = AsksTile BY <2>1 DEF AsksTile, Now
  <2>5. NothingOutlivesItsTiles' BY <2>1, <2>3, <2>4, Zenon DEF NothingOutlivesItsTiles, AsksTile
  <2> QED BY <2>1, <2>2, <2>5, Moved DEF Sorry
<1>24. CASE Cleanup
  <2>1. pc = "cleanup" /\ UNCHANGED <<file, config, request, stored>> /\ got' = << >> /\ pc' \in {"idle", "dead"}
    BY <1>24 DEF Cleanup, world, loading
  <2>2. Documented' /\ request' \in DOMAIN Requests BY <2>1 DEF KeptInv, Documented, Requested
  <2> QED BY <2>1, <2>2, Emptied
<1>25. CASE Respawn \/ Recycle
  <2>1. UNCHANGED <<file, request, stored>> /\ got' = << >> /\ pc' = "idle" /\ config' \in {config, None}
    BY <1>25 DEF Respawn, Recycle, Fresh, Forgotten, world
  <2>2. Documented' BY <2>1 DEF KeptInv, Documented
  <2> QED BY <2>1, <2>2, Emptied
<1>26. CASE Finished BY <1>1, <1>26 DEF Finished
<1> QED
  BY <1>1, <1>2, <1>3, <1>4, <1>5, <1>6, <1>7, <1>8, <1>9, <1>10, <1>11, <1>12, <1>18, <1>19, <1>20, <1>21, <1>22,
     <1>23, <1>24, <1>25, <1>26 DEF Next, Serve

(* Whatever the sources say, in whatever documents, and whichever requests *)
(* are made: what the caches hold are pictures.                            *)
THEOREM PicturesKept == Spec => []OnlyPicturesAreKept
<1>1. KeptInv => OnlyPicturesAreKept BY DEF KeptInv
<1>2. Spec => []HarmInv BY HarmStart, HarmStays, PTL DEF Spec
<1> QED BY KeptStart, KeptStays, <1>1, <1>2, PTL DEF Spec

(* Whatever the tilesets of a document are kept for: the answer to the     *)
(* request of a tile expires no later than any of the tiles it is made of. *)
THEOREM AnswersExpireInTime == Spec => []NothingOutlivesItsTiles
<1>1. KeptInv => NothingOutlivesItsTiles BY DEF KeptInv
<1>2. Spec => []HarmInv BY HarmStart, HarmStays, PTL DEF Spec
<1> QED BY KeptStart, KeptStays, <1>1, <1>2, PTL DEF Spec
-----------------------------------------------------------------------------
(* Where what is stored, and what was fetched, comes from.                  *)

LEMMA PartsOfWanted ==
  ASSUME NEW cfg, NEW t
  PROVE  /\ Wanted(cfg, t).tile = t /\ Wanted(cfg, t).key = CacheKey(cfg, t)
         /\ t.tileset.source = None => Wanted(cfg, t).work = << >>
         /\ t.tileset.source # None => /\ Wanted(cfg, t).work # << >>
                                       /\ \A a \in BackendAnswers : Wanted(cfg, t).work[a] = Work(cfg, t, a)
<1> DEFINE table == [a \in BackendAnswers |-> Work(cfg, t, a)]
<1>1. Wanted(cfg, t) = [tile |-> t, key |-> CacheKey(cfg, t),
                        work |-> IF t.tileset.source = None THEN << >> ELSE table]
  BY Zenon DEF Wanted, Tabled
<1>2. DOMAIN table = BackendAnswers /\ "picture" \in BackendAnswers BY DEF BackendAnswers
<1>3. \A a \in BackendAnswers : table[a] = Work(cfg, t, a) OBVIOUS
<1> HIDE DEF table
<1>4. table # << >> BY <1>2
<1> QED BY <1>1, <1>3, <1>4

(* What the sources make of the metatile of tile t of document d.          *)
Works(d, t, a) == d \in Loaded(Documents) /\ t \in TilesWanted(d) /\ t.tileset.source # None /\ a \in BackendAnswers
Made(d, t, a) == Work(Cfg(d), t, a).stores

Origin ==
  \A key \in DOMAIN stored : \E d, t, a :
    /\ Works(d, t, a) /\ key \in DOMAIN Made(d, t, a)
    /\ stored[key] = Made(d, t, a)[key] /\ DOMAIN Made(d, t, a) \subseteq DOMAIN stored

(* The ways a tile is got, each with what it leaves.                       *)
Hit(n) ==
  LET key == CacheKey(Cfg(config), Tiles[n])
  IN  /\ got[n].how = "hit" /\ got[n].code = 0 /\ key \in DOMAIN stored
      /\ \E d, t, a : Works(d, t, a) /\ key \in DOMAIN Made(d, t, a) /\ got[n].data = Made(d, t, a)[key]
Nowhere(n) == got[n].how = "no source" /\ got[n].code = 0 /\ Tiles[n].tileset.source = None /\ got[n].data = NoData
Waited(n) == got[n].how = "waited" /\ got[n].code = 0 /\ got[n].data = NoData
Rendered(n) ==
  /\ got[n].how = "rendered" /\ got[n].code = 0
  /\ \E a : /\ Works(config, Tiles[n], a) /\ ~Failed(Work(Cfg(config), Tiles[n], a))
            /\ got[n].data = Work(Cfg(config), Tiles[n], a).alone
            /\ DOMAIN Made(config, Tiles[n], a) \subseteq DOMAIN stored
Unfetched(n) ==
  /\ got[n].how = "failed" /\ got[n].code # 0 /\ got[n].data = NoData
  /\ got[n].code = 404 \/ \E a : Works(config, Tiles[n], a) /\ got[n].code = Work(Cfg(config), Tiles[n], a).code
Came(n) ==
  /\ Hit(n) \/ Nowhere(n) \/ Waited(n) \/ Rendered(n) \/ Unfetched(n)
  /\ got[n].nodata <=> got[n].how = "no source"

CameInv == Origin /\ \A n \in DOMAIN got : Came(n)

(* What a document is found to want.                                       *)
LEMMA WantedOf ==
  ASSUME NEW d \in DOMAIN Documents, Site[d] # {}, NEW r \in DOMAIN Requests, NEW n \in DOMAIN Handled(d, r).wants
  PROVE  LET t == Handled(d, r).wants[n].tile
         IN  /\ d \in Loaded(Documents) /\ t \in TilesWanted(d)
             /\ Handled(d, r).wants[n] = Wanted(Cfg(d), t) /\ Sound(Cfg(d), t.tileset) /\ OnItsGrid(t)
<1>1. d \in Loaded(Documents) BY DEF Loaded
<1>2. Handled(d, r).wants[n].tile \in TilesWanted(d) BY DEF TilesWanted
<1>3. PICK t : /\ Handled(d, r).wants[n] = Wanted(Cfg(d), t) /\ Handled(d, r).wants[n].tile = t
               /\ Sound(Cfg(d), t.tileset) /\ OnItsGrid(t)
  BY WhatIsWanted, Zenon
<1> QED BY <1>1, <1>2, <1>3, Zenon

LEMMA SeededCame ==
  ASSUME NEW d \in DOMAIN Documents, Site[d] # {}, stored = Seeded(d) PROVE Origin
<1> DEFINE works == {want.work : want \in UNION {{Handled(d, r).wants[n] : n \in DOMAIN Handled(d, r).wants} :
                                                  r \in Asking[d]}}
           held == {work["picture"].stores : work \in works \ {<< >>}}
<1>1. \A tiles \in held : \E t : Works(d, t, "picture") /\ tiles = Made(d, t, "picture")
  <2> SUFFICES ASSUME NEW work \in works, work # << >>
      PROVE  \E t : Works(d, t, "picture") /\ work["picture"].stores = Made(d, t, "picture")
    BY Zenon DEF held
  <2>1. PICK r \in Asking[d] : \E n \in DOMAIN Handled(d, r).wants : work = Handled(d, r).wants[n].work OBVIOUS
  <2>2. r \in DOMAIN Requests BY ServerAssumption
  <2>3. PICK n \in DOMAIN Handled(d, r).wants : work = Handled(d, r).wants[n].work BY <2>1
  <2> DEFINE t == Handled(d, r).wants[n].tile
  <2>4. d \in Loaded(Documents) /\ t \in TilesWanted(d) /\ Handled(d, r).wants[n] = Wanted(Cfg(d), t)
    BY <2>2, WantedOf, Zenon
  <2> HIDE DEF t, works
  <2>5. "picture" \in BackendAnswers BY DEF BackendAnswers
  <2>6. work = Wanted(Cfg(d), t).work BY <2>3, <2>4, Zenon
  <2>7. work # << >> OBVIOUS
  <2>8. t.tileset.source # None /\ work["picture"] = Work(Cfg(d), t, "picture")
    BY <2>5, <2>6, <2>7, PartsOfWanted
  <2> QED BY <2>4, <2>5, <2>8, Zenon DEF Works, Made
<1>2. Seeded(d) = [key \in UNION {DOMAIN tiles : tiles \in held} |-> (CHOOSE tiles \in held : key \in DOMAIN tiles)[key]]
  BY Zenon DEF Seeded
<1> HIDE DEF held
<1>3. ASSUME NEW key \in DOMAIN stored
      PROVE \E tiles \in held : key \in DOMAIN tiles /\ stored[key] = tiles[key] /\ DOMAIN tiles \subseteq DOMAIN stored
  <2> DEFINE tiles == CHOOSE T \in held : key \in DOMAIN T
  <2>1. key \in UNION {DOMAIN T : T \in held} BY <1>2, <1>3
  <2>2. tiles \in held /\ key \in DOMAIN tiles BY <2>1
  <2>3. stored[key] = tiles[key] BY <1>2, <2>1
  <2>4. DOMAIN tiles \subseteq DOMAIN stored BY <1>2, <2>2
  <2> QED BY <2>2, <2>3, <2>4
<1>4. ASSUME NEW key \in DOMAIN stored
      PROVE  \E e, t, a : /\ Works(e, t, a) /\ key \in DOMAIN Made(e, t, a)
                          /\ stored[key] = Made(e, t, a)[key] /\ DOMAIN Made(e, t, a) \subseteq DOMAIN stored
  <2>1. PICK tiles \in held : key \in DOMAIN tiles /\ stored[key] = tiles[key] /\ DOMAIN tiles \subseteq DOMAIN stored
    BY <1>3
  <2>2. PICK t : Works(d, t, "picture") /\ tiles = Made(d, t, "picture") BY <1>1, <2>1
  <2> QED BY <2>1, <2>2, Zenon
<1> QED BY <1>4, Zenon DEF Origin

(* Origins stay when what one work leaves is stored.                       *)
LEMMA OriginKept ==
  ASSUME Origin, NEW d, NEW t, NEW a, Works(d, t, a), stored' = Kept(Made(d, t, a)) PROVE Origin'
<1> DEFINE made == Made(d, t, a)
<1>1. /\ DOMAIN stored' = DOMAIN made \cup DOMAIN stored
      /\ \A key \in DOMAIN stored' : stored'[key] = IF key \in DOMAIN made THEN made[key] ELSE stored[key]
  <2> HIDE DEF made
  <2>1. stored' = [key \in DOMAIN made \cup DOMAIN stored |-> IF key \in DOMAIN made THEN made[key] ELSE stored[key]]
    BY Zenon DEF Kept, made
  <2> QED BY <2>1
<1>2. \A k \in DOMAIN stored' : \E e, u, b :
        /\ Works(e, u, b) /\ k \in DOMAIN Made(e, u, b)
        /\ stored'[k] = Made(e, u, b)[k] /\ DOMAIN Made(e, u, b) \subseteq DOMAIN stored'
  <2> SUFFICES ASSUME NEW k \in DOMAIN stored'
      PROVE  \E e, u, b : /\ Works(e, u, b) /\ k \in DOMAIN Made(e, u, b)
                          /\ stored'[k] = Made(e, u, b)[k] /\ DOMAIN Made(e, u, b) \subseteq DOMAIN stored'
    OBVIOUS
  <2>1. CASE k \in DOMAIN made
    <3>1. stored'[k] = made[k] /\ DOMAIN made \subseteq DOMAIN stored' BY <1>1, <2>1
    <3> QED BY <2>1, <3>1
  <2>2. CASE k \notin DOMAIN made
    <3> HIDE DEF made
    <3>1. k \in DOMAIN stored /\ stored'[k] = stored[k] BY <1>1, <2>2
    <3>2. PICK e, u, b : /\ Works(e, u, b) /\ k \in DOMAIN Made(e, u, b)
                         /\ stored[k] = Made(e, u, b)[k] /\ DOMAIN Made(e, u, b) \subseteq DOMAIN stored
      BY <3>1, Zenon DEF Origin
    <3>3. DOMAIN Made(e, u, b) \subseteq DOMAIN stored' BY <1>1, <3>2
    <3> QED BY <3>1, <3>2, <3>3, Zenon
  <2> QED BY <2>1, <2>2
<1> QED BY <1>2, Zenon DEF Origin, Works
(* What the table says a request is.                                       *)
LEMMA WhatIsHandled ==
  ASSUME NEW d \in DOMAIN Documents, Site[d] # {}, NEW r \in DOMAIN Requests
  PROVE  LET handling == Handled(d, r)
         IN  /\ Cfg(d).default_format # None /\ Writable(Cfg(d).default_format)
             /\ handling.service \in ServiceNames \cup {None, "forgotten"}
             /\ handling.parsed.code \in Codes
             /\ ~Failed(handling.parsed) => Understood(handling.parsed.value) /\ Drawable(Cfg(d), handling.parsed.value)
             /\ \A said \in DOMAIN handling.says : handling.says[said].code \in Codes
<1> DEFINE site == TheOne(Site[d])
<1>1. site \in Site[d]
  <2>1. \E s : s \in Site[d] OBVIOUS
  <2> QED BY <2>1, Zenon DEF TheOne
<1>2. Cfg(d) = site.cfg /\ Handled(d, r) = site.handling[r] BY DEF Cfg, Handled
<1> HIDE DEF site
<1> QED BY <1>1, <1>2, HandlingAssumption, Zenon

(* The steps: one fetches a tile, one leaves no tiles behind, and every    *)
(* other leaves the tiles and what they are asked for as they are.         *)
Answering == {"fetch", "rest", "forward", "page", "info", "proxy"}
Fetches ==
  /\ UNCHANGED <<config, request, pc>>
  /\ \E n \in DOMAIN Tiles, way \in Ways :
       /\ FetchTile(n, way)
       /\ \/ pc = "fetch" /\ (Threaded(Cfg(config), Tiles) => n \in Launched(Tiles))
          \/ pc = "rest" /\ error = 0 /\ n \in Rest
Empties ==
  /\ UNCHANGED stored /\ DOMAIN got' = {} /\ pc' # "rest"
  /\ pc' \in Answering => /\ UNCHANGED <<config, request>> /\ config # None
                          /\ ~Failed(Now.parsed) /\ pc' = Next1(Now.parsed.value)
Keeps ==
  /\ UNCHANGED <<stored, got, config, request>>
  /\ pc' \in Answering => pc' = pc \/ (pc = "fetch" /\ pc' = "rest")
  /\ pc' = "rest" => JoinThreads \/ (pc = "rest" /\ UNCHANGED error)

LEMMA HowItMoves == KeptInv /\ [Next]_vars => Fetches \/ Empties \/ Keeps
<1> SUFFICES ASSUME KeptInv, [Next]_vars PROVE Fetches \/ Empties \/ Keeps OBVIOUS
<1> DEFINE Goal == Fetches \/ Empties \/ Keeps
<1>0. DOMAIN << >> = {} OBVIOUS
<1>1. CASE UNCHANGED vars BY <1>1 DEF vars, Keeps, Answering
<1>2. ASSUME NEW d \in DOMAIN Documents \cup {None}, Edit(d) PROVE Goal BY <1>2 DEF Edit, world, Keeps, Answering
<1>3. ASSUME NEW r \in DOMAIN Requests, Accept(r) PROVE Goal BY <1>0, <1>3 DEF Accept, world, Empties, Answering
<1>4. CASE Astray BY <1>4 DEF Astray, world, loading, Keeps, Answering
<1>5. CASE OpenFails \/ FirstReadFails BY <1>5 DEF OpenFails, FirstReadFails, world, Keeps, Answering
<1>6. CASE Stat \/ ReadKeepsOld BY <1>6 DEF Stat, ReadKeepsOld, world, loading, Keeps, Answering
<1>7. CASE Read
  <2>1. DOMAIN got = {} BY <1>7 DEF Read, KeptInv, Gotten
  <2> QED BY <1>7, <2>1 DEF Read, world, Empties, Answering
<1>8. CASE DispatchRequest
  <2>1. UNCHANGED <<stored, config, request>> /\ got' = got /\ pc = "dispatch"
    BY <1>8, Zenon DEF DispatchRequest, world, loading
  <2>2. DOMAIN got = {} /\ config # None BY <2>1 DEF KeptInv, Gotten, Working
  <2>3. pc' \in {"refuse", "dead"} \/ (~Failed(Now.parsed) /\ pc' = Next1(Now.parsed.value))
    BY <1>8, Zenon DEF DispatchRequest
  <2>4. config \in DOMAIN Documents /\ Site[config] # {} /\ request \in DOMAIN Requests
    BY <2>1 DEF KeptInv, Working, Requested, Documented
  <2>5. ~Failed(Now.parsed) => Understood(Now.parsed.value) BY <2>4, WhatIsHandled, Zenon DEF Now
  <2>6. Understood(Now.parsed.value) => Next1(Now.parsed.value) # "rest" BY DEF Understood, RequestTypes, Next1
  <2>7. pc' # "rest" BY <2>3, <2>5, <2>6
  <2>8. pc' \in Answering => ~Failed(Now.parsed) /\ pc' = Next1(Now.parsed.value) BY <2>3 DEF Answering
  <2> QED BY <2>1, <2>2, <2>4, <2>7, <2>8 DEF Empties
<1>9. ASSUME NEW way \in Ways, FetchNext(way) PROVE Goal
  <2>1. /\ pc = "fetch" /\ UNCHANGED <<config, request, pc>> /\ ~Threaded(Cfg(config), Tiles)
        /\ \E n \in DOMAIN Tiles : FetchTile(n, way)
    BY <1>9, Zenon DEF FetchNext, Fetching, loading
  <2> QED BY <2>1 DEF Fetches
<1>10. ASSUME NEW way \in Ways, FetchRest(way) PROVE Goal
  <2>1. pc = "rest" /\ error = 0 /\ Rest # {} /\ FetchTile(Lowest(Rest), way) /\ UNCHANGED <<config, pc, request>>
    BY <1>10, Zenon DEF FetchRest, loading
  <2>2. config \in DOMAIN Documents /\ Site[config] # {} /\ request \in DOMAIN Requests
    BY <2>1 DEF KeptInv, Documented, Working, Requested
  <2>3. DOMAIN Tiles \subseteq Nat BY <2>2, WhatIsWanted DEF Tiles, Now
  <2>4. Lowest(Rest) \in Rest BY <2>1, <2>3, LowestNatural DEF Rest
  <2>5. Lowest(Rest) \in DOMAIN Tiles BY <2>4 DEF Rest
  <2> QED BY <2>1, <2>4, <2>5 DEF Fetches
<1>11. ASSUME NEW n \in DOMAIN Tiles, NEW way \in Ways, FetchInThread(n, way) PROVE Goal
  <2>1. pc = "fetch" /\ FetchTile(n, way) /\ UNCHANGED <<config, pc, request>> /\ n \in Launched(Tiles)
    BY <1>11, Zenon DEF FetchInThread, Fetching, loading
  <2> QED BY <2>1 DEF Fetches
<1>12. CASE JoinThreads
  <2>1. UNCHANGED <<config, request, got, stored>> /\ pc = "fetch" /\ pc' = "rest"
    BY <1>12, Zenon DEF JoinThreads, Fetching, world, loading
  <2> QED BY <1>12, <2>1 DEF Keeps
<1>13. ASSUME NEW code, Refuse(code) PROVE Goal BY <1>13 DEF Refuse, world, loading, Keeps, Answering
<1>14. ASSUME Die PROVE Goal BY <1>14 DEF Die, world, loading, Keeps, Answering
<1>15. ASSUME NEW outcome, Sent(outcome) PROVE Goal
  <2>1. CASE Refuse(outcome.code) BY <1>13, <2>1, Zenon
  <2>2. CASE pc' = "cleanup" /\ UNCHANGED <<world, file, loading, request, got>> BY <2>2 DEF world, loading, Keeps, Answering
  <2> QED BY <1>15, <2>1, <2>2, Zenon DEF Sent
<1>16. CASE SendTile \/ SendMap BY <1>15, <1>16, Zenon DEF SendTile, SendMap
<1>17. CASE MapWithoutFormat BY <1>13, <1>14, <1>17, Zenon DEF MapWithoutFormat
<1>18. CASE \E said \in DOMAIN Now.says : ForwardMap(said) \/ SendPage(said) \/ SendInfo(said) \/ SendProxied(said)
  BY <1>15, <1>18, Zenon DEF ForwardMap, SendPage, SendInfo, SendProxied
<1>19. CASE NothingToSend BY <1>14, <1>19 DEF NothingToSend
<1>20. CASE RespondToError
  <2>1. UNCHANGED <<config, request, got, stored>> /\ pc' \in {"cleanup", "dead"}
    BY <1>20, Zenon DEF RespondToError, world, loading
  <2> QED BY <2>1 DEF Keeps, Answering
<1>21. CASE Cleanup BY <1>0, <1>21 DEF Cleanup, world, Empties, Answering
<1>22. CASE Respawn \/ Recycle BY <1>0, <1>22 DEF Respawn, Recycle, Fresh, world, Empties, Answering
<1>23. CASE Finished BY <1>1, <1>23 DEF Finished
<1> QED
  BY <1>1, <1>2, <1>3, <1>4, <1>5, <1>6, <1>7, <1>8, <1>9, <1>10, <1>11, <1>12, <1>16, <1>17, <1>18, <1>19, <1>20,
     <1>21, <1>22, <1>23 DEF Next, Serve

(* The outcome of a fetch.                                                 *)
Leaves(outcome, code, data, how) ==
  /\ outcome.code = code /\ outcome.data = data /\ outcome.how = how
  /\ outcome.nodata <=> how = "no source"

LEMMA FetchedLeaves == ASSUME NEW data, NEW how PROVE Leaves(Fetched(data, how), 0, data, how)
<1>1. Fetched(data, how).code = 0 /\ Fetched(data, how).data = data /\ Fetched(data, how).how = how
  BY DEF Fetched
<1>2. Fetched(data, how).nodata <=> how = "no source" BY DEF Fetched
<1> QED BY <1>1, <1>2 DEF Leaves

LEMMA FailedLeaves == ASSUME NEW code PROVE Leaves(FetchFailed(code), code, NoData, "failed")
BY DEF FetchFailed, Leaves

(* What a fetch leaves of a tile.                                          *)
LEMMA FetchComes ==
  ASSUME KeptInv, Origin, pc \in {"fetch", "rest"}, NEW n \in DOMAIN Tiles, NEW way, FetchTile(n, way),
         UNCHANGED <<config, request>>
  PROVE  /\ Tiles' = Tiles /\ DOMAIN stored \subseteq DOMAIN stored'
         /\ DOMAIN got' = DOMAIN got \cup {n} /\ \A m \in DOMAIN got \ {n} : got'[m] = got[m]
         /\ Origin' /\ Came(n)'
<1>1. config \in DOMAIN Documents /\ Site[config] # {} /\ request \in DOMAIN Requests
  BY DEF KeptInv, Working, Requested, Documented
<1> DEFINE t == Tiles[n]
           cfg == Cfg(config)
           answer == IF way \in BackendAnswers THEN way ELSE "picture"
           work == Work(cfg, t, answer)
           f == Fetch(Now.wants[n], way)
           key == CacheKey(cfg, t)
<1>2. n \in DOMAIN Handled(config, request).wants /\ t = Handled(config, request).wants[n].tile BY DEF Tiles, Now
<1>3. config \in Loaded(Documents) /\ t \in TilesWanted(config) /\ Now.wants[n] = Wanted(cfg, t)
  BY <1>1, <1>2, WantedOf, Zenon DEF Now
<1>4. answer \in BackendAnswers BY DEF BackendAnswers
<1>5. Tiles' = Tiles /\ Now' = Now BY DEF Tiles, Now
<1>6. /\ DOMAIN got' = DOMAIN got \cup {n} /\ got'[n] = f.outcome
      /\ \A m \in DOMAIN got \ {n} : got'[m] = got[m] /\ stored' = Kept(f.stores)
  <2> HIDE DEF f
  <2>1. got' = [m \in DOMAIN got \cup {n} |-> IF m = n THEN f.outcome ELSE got[m]] /\ stored' = Kept(f.stores)
    BY Zenon DEF FetchTile, f
  <2> QED BY <2>1
<1>7. stored' = Kept(f.stores) BY Zenon DEF FetchTile
<1> DEFINE want == Wanted(cfg, t)
<1>8. want.key = key /\ (t.tileset.source = None => want.work = << >>)
      /\ (t.tileset.source # None => want.work # << >> /\ want.work[answer] = work)
  <2> HIDE DEF answer
  <2> QED BY <1>4, PartsOfWanted
<1>9. f = IF key \in DOMAIN stored THEN [outcome |-> Fetched(stored[key], "hit"), stores |-> << >>]
          ELSE IF t.tileset.source = None THEN [outcome |-> Fetched(NoData, "no source"), stores |-> << >>]
          ELSE IF NonBlocking THEN [outcome |-> FetchFailed(404), stores |-> << >>]
          ELSE IF way = "failed elsewhere" THEN [outcome |-> Fetched(NoData, "waited"), stores |-> << >>]
          ELSE IF way = "rendered elsewhere" THEN [outcome |-> Fetched(NoData, "waited"), stores |-> work.stores]
          ELSE [outcome |-> IF Failed(work) THEN FetchFailed(work.code) ELSE Fetched(work.alone, "rendered"),
                stores |-> work.stores]
  <2> HIDE DEF want, answer
  <2>1. f = Fetch(want, way) BY <1>3 DEF want
  <2> HIDE DEF f
  <2> QED BY <1>8, <2>1, Zenon DEF Fetch, answer
<1> HIDE DEF want, f
<1>10. \A made : DOMAIN Kept(made) = DOMAIN made \cup DOMAIN stored BY DEF Kept
<1>11. DOMAIN << >> = {} OBVIOUS
<1>12. ASSUME f.stores = << >> PROVE Origin' /\ DOMAIN stored' = DOMAIN stored
  <2>1. DOMAIN stored' = DOMAIN stored BY <1>7, <1>10, <1>11, <1>12
  <2>2. \A k \in DOMAIN stored : stored'[k] = stored[k] BY <1>7, <1>11, <1>12 DEF Kept
  <2>3. Origin'
    <3> SUFFICES ASSUME NEW k \in DOMAIN stored'
        PROVE  \E e, u, b : /\ Works(e, u, b) /\ k \in DOMAIN Made(e, u, b)
                            /\ stored'[k] = Made(e, u, b)[k] /\ DOMAIN Made(e, u, b) \subseteq DOMAIN stored'
      BY Zenon DEF Origin
    <3>1. k \in DOMAIN stored /\ stored'[k] = stored[k] BY <2>1, <2>2
    <3> QED BY <2>1, <3>1, Zenon DEF Origin
  <2> QED BY <2>1, <2>3
<1>13. t.tileset.source # None => work \in {Work(Cfg(config), t, a) : a \in BackendAnswers} /\ Works(config, t, answer)
  BY <1>3, <1>4 DEF Works
<1> HIDE DEF work, answer, key
<1>14. ASSUME t.tileset.source # None, f.stores = work.stores PROVE Origin' /\ DOMAIN stored \subseteq DOMAIN stored'
  <2>1. Works(config, t, answer) /\ work.stores = Made(config, t, answer) BY <1>13, <1>14 DEF Made, work
  <2>2. stored' = Kept(Made(config, t, answer)) BY <1>7, <1>14, <2>1, Zenon
  <2>3. Origin' BY <2>1, <2>2, OriginKept
  <2>4. DOMAIN stored \subseteq DOMAIN stored' /\ DOMAIN Made(config, t, answer) \subseteq DOMAIN stored'
    BY <1>10, <2>2
  <2> QED BY <2>3, <2>4
<1>15. CASE key \in DOMAIN stored
  <2>1. f.outcome = Fetched(stored[key], "hit") /\ f.stores = << >> BY <1>9, <1>15
  <2>2. key \in DOMAIN stored' BY <1>12, <1>15, <2>1
  <2>3. \E d, u, a : Works(d, u, a) /\ key \in DOMAIN Made(d, u, a) /\ stored[key] = Made(d, u, a)[key]
    BY <1>15, Zenon DEF Origin
  <2>4. Leaves(got'[n], 0, stored[key], "hit")
    BY <1>6, <2>1, FetchedLeaves
  <2>5. Hit(n)' BY <1>5, <2>2, <2>3, <2>4 DEF Hit, key, Leaves
  <2> QED BY <1>5, <1>6, <1>12, <2>1, <2>4, <2>5 DEF Came, Leaves
<1>16. CASE key \notin DOMAIN stored /\ t.tileset.source = None
  <2>1. f.outcome = Fetched(NoData, "no source") /\ f.stores = << >> BY <1>9, <1>16
  <2>2. Leaves(got'[n], 0, NoData, "no source")
    BY <1>6, <2>1, FetchedLeaves
  <2>3. Nowhere(n)' BY <1>5, <1>16, <2>2 DEF Nowhere, Leaves
  <2> QED BY <1>5, <1>6, <1>12, <2>1, <2>2, <2>3 DEF Came, Leaves
<1>17. CASE key \notin DOMAIN stored /\ t.tileset.source # None
  <2>1. CASE f.outcome = Fetched(NoData, "waited") /\ f.stores \in {<< >>, work.stores}
    <3>1. Leaves(got'[n], 0, NoData, "waited")
      BY <1>6, <2>1, FetchedLeaves
    <3>2. Waited(n)' BY <3>1 DEF Waited, Leaves
    <3> QED BY <1>5, <1>6, <1>12, <1>14, <1>17, <2>1, <3>1, <3>2 DEF Came, Leaves
  <2>2. CASE f.outcome = FetchFailed(404) /\ f.stores = << >>
    <3>1. Leaves(got'[n], 404, NoData, "failed")
      BY <1>6, <2>2, FailedLeaves
    <3>2. Unfetched(n)' BY <3>1 DEF Unfetched, Leaves
    <3> QED BY <1>5, <1>6, <1>12, <2>2, <3>1, <3>2 DEF Came, Leaves
  <2>3. CASE Failed(work) /\ f.outcome = FetchFailed(work.code) /\ f.stores = work.stores
    <3>1. Leaves(got'[n], work.code, NoData, "failed")
      BY <1>6, <2>3, FailedLeaves
    <3>2. work.code # 0 BY <2>3 DEF Failed
    <3>3. Works(config, t, answer) /\ work.code = Work(Cfg(config), t, answer).code BY <1>13, <1>17 DEF work
    <3>4. Unfetched(n)' BY <1>5, <3>1, <3>2, <3>3, Zenon DEF Unfetched, Works, Leaves
    <3> QED BY <1>5, <1>6, <1>14, <1>17, <2>3, <3>1, <3>4 DEF Came, Leaves
  <2>4. CASE ~Failed(work) /\ f.outcome = Fetched(work.alone, "rendered") /\ f.stores = work.stores
    <3>1. Leaves(got'[n], 0, work.alone, "rendered")
      BY <1>6, <2>4, FetchedLeaves
    <3>2. Works(config, t, answer) BY <1>13, <1>17
    <3>3. DOMAIN Made(config, t, answer) \subseteq DOMAIN stored'
      <4>1. f.stores = Made(config, t, answer) BY <2>4 DEF Made, work
      <4> QED BY <1>7, <1>10, <4>1
    <3>4. /\ Works(config, t, answer) /\ ~Failed(Work(Cfg(config), t, answer))
          /\ got'[n].data = Work(Cfg(config), t, answer).alone /\ DOMAIN Made(config, t, answer) \subseteq DOMAIN stored'
      BY <2>4, <3>1, <3>2, <3>3 DEF work, Leaves
    <3>5. Rendered(n)' BY <1>5, <3>1, <3>4, Zenon DEF Rendered, Works, Leaves
    <3> QED BY <1>5, <1>6, <1>14, <1>17, <2>4, <3>1, <3>5 DEF Came, Leaves
  <2>5. \/ f.outcome = FetchFailed(404) /\ f.stores = << >>
        \/ f.outcome = Fetched(NoData, "waited") /\ f.stores \in {<< >>, work.stores}
        \/ f = [outcome |-> IF Failed(work) THEN FetchFailed(work.code) ELSE Fetched(work.alone, "rendered"),
                stores |-> work.stores]
    BY <1>9, <1>17
  <2> QED BY <2>1, <2>2, <2>3, <2>4, <2>5
<1> QED BY <1>15, <1>16, <1>17

LEMMA CameOn ==
  ASSUME NEW m, Came(m), got'[m] = got[m], Tiles' = Tiles, UNCHANGED config, DOMAIN stored \subseteq DOMAIN stored'
  PROVE  Came(m)'
<1>1. CASE Hit(m) BY <1>1 DEF Came, Hit
<1>2. CASE Nowhere(m) BY <1>2 DEF Came, Nowhere
<1>3. CASE Waited(m) BY <1>3 DEF Came, Waited
<1>4. CASE Rendered(m)
  <2>1. PICK a : /\ Works(config, Tiles[m], a) /\ ~Failed(Work(Cfg(config), Tiles[m], a))
                 /\ got[m].data = Work(Cfg(config), Tiles[m], a).alone
                 /\ DOMAIN Made(config, Tiles[m], a) \subseteq DOMAIN stored
    BY <1>4, Zenon DEF Rendered
  <2>2. DOMAIN Made(config, Tiles[m], a) \subseteq DOMAIN stored' BY <2>1
  <2>3. got'[m].how = "rendered" /\ got'[m].code = 0 BY <1>4 DEF Rendered
  <2>4. Rendered(m)' BY <2>1, <2>2, <2>3, Zenon DEF Rendered, Works
  <2> QED BY <2>4 DEF Came
<1>5. CASE Unfetched(m) BY <1>5 DEF Came, Unfetched
<1> QED BY <1>1, <1>2, <1>3, <1>4, <1>5 DEF Came

LEMMA CameStart == Init => CameInv
<1> SUFFICES ASSUME Init PROVE CameInv OBVIOUS
<1>1. DOMAIN got = {} BY DEF Init
<1>2. PICK d \in FirstFiles : \/ stored = << >>
                              \/ Loads(d) /\ stored \in IF frontend = "nginx" THEN {<< >>, Seeded(d)} ELSE {<< >>}
  BY Zenon DEF Init
<1>3. d \in DOMAIN Documents BY ServerAssumption
<1>4. stored = << >> \/ (Site[d] # {} /\ stored = Seeded(d)) BY <1>2 DEF Loads
<1>5. CASE stored = << >> BY <1>1, <1>5 DEF CameInv, Origin
<1>6. CASE Site[d] # {} /\ stored = Seeded(d) BY <1>1, <1>3, <1>6, SeededCame DEF CameInv
<1> QED BY <1>4, <1>5, <1>6

LEMMA OriginSame == ASSUME Origin, UNCHANGED stored PROVE Origin'
BY DEF Origin

LEMMA CameStays == CameInv /\ KeptInv /\ [Next]_vars => CameInv'
<1> SUFFICES ASSUME CameInv, KeptInv, [Next]_vars PROVE CameInv' OBVIOUS
<1>1. CASE Fetches
  <2>1. pc \in {"fetch", "rest"} /\ UNCHANGED <<config, request>> BY <1>1 DEF Fetches
  <2>2. PICK n \in DOMAIN Tiles, way \in Ways : FetchTile(n, way) BY <1>1 DEF Fetches
  <2>3. Origin BY DEF CameInv
  <2>4. /\ Tiles' = Tiles /\ DOMAIN stored \subseteq DOMAIN stored'
        /\ DOMAIN got' = DOMAIN got \cup {n} /\ \A m \in DOMAIN got \ {n} : got'[m] = got[m]
        /\ Origin' /\ Came(n)'
    BY <2>1, <2>2, <2>3, FetchComes
  <2>5. ASSUME NEW m \in DOMAIN got' PROVE Came(m)'
    <3>1. CASE m = n BY <2>4, <3>1
    <3>2. CASE m # n
      <4>1. m \in DOMAIN got /\ got'[m] = got[m] BY <2>4, <3>2
      <4>2. Came(m) BY <4>1 DEF CameInv
      <4> QED BY <2>1, <2>4, <4>1, <4>2, CameOn
    <3> QED BY <3>1, <3>2
  <2> QED BY <2>4, <2>5, Zenon DEF CameInv
<1>2. CASE Empties
  <2>1. Origin' BY <1>2, OriginSame DEF Empties, CameInv
  <2>2. DOMAIN got' = {} BY <1>2 DEF Empties
  <2> QED BY <2>1, <2>2 DEF CameInv
<1>3. CASE Keeps
  <2>1. UNCHANGED <<stored, got, config, request>> BY <1>3 DEF Keeps
  <2>2. Origin' BY <2>1, OriginSame DEF CameInv
  <2>3. Tiles' = Tiles BY <2>1 DEF Tiles, Now
  <2>4. ASSUME NEW m \in DOMAIN got' PROVE Came(m)'
    <3>1. Came(m) /\ got'[m] = got[m] BY <2>1, <2>4 DEF CameInv
    <3> QED BY <2>1, <2>3, <3>1, CameOn
  <2> QED BY <2>2, <2>4, Zenon DEF CameInv
<1> QED BY <1>1, <1>2, <1>3, HowItMoves
-----------------------------------------------------------------------------
(* A metatile is stored whole.                                              *)

(* What the caches know of a tile is all that they are asked for it by.    *)
LEMMA SameKeys ==
  ASSUME NEW s, NEW u, SameTile(s, u), NEW cache PROVE KeyOf(cache, s) = KeyOf(cache, u)
<1>1. s.tileset = u.tileset /\ s.grid_link.grid = u.grid_link.grid /\ s.dimensions = u.dimensions
      /\ s.x = u.x /\ s.y = u.y /\ s.z = u.z
  BY DEF SameTile
<1>2. Dims(s) = Dims(u) /\ LevelOf(s) = LevelOf(u) BY <1>1 DEF Dims, LevelOf
<1>3. \A p, dim : Placeholder(p, s, dim) = Placeholder(p, u, dim) BY <1>1, <1>2, Zenon DEF Placeholder
<1>4. \A template, dim : FilledIn(template, s, dim) = FilledIn(template, u, dim) BY <1>3 DEF FilledIn
<1>5. \A sanitized : DimKey(s, sanitized) = DimKey(u, sanitized) BY <1>2, Zenon DEF DimKey
<1>6. BaseKey(s) = BaseKey(u) BY <1>1, <1>2, Zenon DEF BaseKey
<1>7. TilecacheKey(s) = TilecacheKey(u) /\ ArcgisKey(s) = ArcgisKey(u)
  BY <1>1, <1>6, SMT DEF TilecacheKey, ArcgisKey
<1>8. \A template : TemplateKey(s, template) = TemplateKey(u, template)
  BY <1>2, <1>4, Zenon DEF TemplateKey
<1>9. \A template, sanitized : TileKey(s, template, sanitized) = TileKey(u, template, sanitized)
  BY <1>1, <1>4, <1>5, Zenon DEF TileKey
<1>10. \A p, n, dim : TiffPlaceholder(p, s, n, dim) = TiffPlaceholder(p, u, n, dim)
  BY <1>1, <1>2, <1>3 DEF TiffPlaceholder
<1>11. \A template, n : TiffFile(s, template, n) = TiffFile(u, template, n) /\ TiffPlace(s, n) = TiffPlace(u, n)
  <2> SUFFICES ASSUME NEW template, NEW n
      PROVE TiffFile(s, template, n) = TiffFile(u, template, n) /\ TiffPlace(s, n) = TiffPlace(u, n)
    OBVIOUS
  <2> DEFINE dim(t) == Part("dim", [i \in DOMAIN Dims(t) |-> Sanitized(Backwards(Dims(t))[i])])
  <2>1. dim(s) = dim(u) BY <1>2
  <2>2. TiffFile(s, template, n) = [i \in DOMAIN template |-> TiffPlaceholder(template[i], s, n, dim(s))]
        /\ TiffFile(u, template, n) = [i \in DOMAIN template |-> TiffPlaceholder(template[i], u, n, dim(u))]
    BY Zenon DEF TiffFile
  <2> HIDE DEF dim
  <2>3. TiffFile(s, template, n) = TiffFile(u, template, n) BY <1>10, <2>1, <2>2
  <2>4. TiffPlace(s, n) = TiffPlace(u, n) BY <1>1, <1>2, Zenon DEF TiffPlace
  <2> QED BY <2>3, <2>4
<1> QED BY <1>1, <1>7, <1>8, <1>9, <1>11 DEF KeyOf

LEMMA SameCacheKey ==
  ASSUME NEW s, NEW u, SameTile(s, u), NEW cfg, NEW other, cfg.caches[s.tileset.cache] = other.caches[s.tileset.cache]
  PROVE  CacheKey(cfg, s) = CacheKey(other, u)
<1>1. s.tileset = u.tileset BY DEF SameTile
<1>2. KeyOf(cfg.caches[s.tileset.cache], s) = KeyOf(cfg.caches[s.tileset.cache], u) BY SameKeys
<1> QED BY <1>1, <1>2, Zenon DEF CacheKey

(* The tile at a place of the block of t.                                  *)
LEMMA FieldsOfBlock ==
  ASSUME NEW t, OnItsGrid(t), NEW p
  PROVE  LET u == TileOfBlock(t, p)
             place == TileAt(BlockOf(t), t.tileset.metasize, p)
         IN  /\ u.tileset = t.tileset /\ u.grid_link = t.grid_link /\ u.dimensions = t.dimensions
             /\ u.x = place.x /\ u.y = place.y /\ u.z = t.z /\ place.z = t.z
<1> DEFINE place == TileAt(BlockOf(t), t.tileset.metasize, p)
<1>1. DOMAIN t = {"tileset", "grid_link", "dimensions", "x", "y", "z"} BY DEF OnItsGrid
<1>2. place.z = t.z BY DEF TileAt, BlockOf, MetatileOf
<1>3. TileOfBlock(t, p) = [t EXCEPT !.x = place.x, !.y = place.y] BY Zenon DEF TileOfBlock
<1> HIDE DEF place
<1> QED BY <1>1, <1>2, <1>3 DEF place

LEMMA RenderedPlaces ==
  ASSUME NEW cfg, NEW t, NEW m, NEW answer, ~Failed(RenderMetatile(cfg, t, m, answer))
  PROVE  DOMAIN RenderMetatile(cfg, t, m, answer).value = MetaTiles(t.grid_link.grid, m, t.tileset.metasize)
<1> DEFINE ts == t.tileset
           g == t.grid_link.grid
           drawn == RenderMap(cfg, MapOf(t, m), answer)
           whole == IF drawn.value.raw_image # {} THEN Good(TheOne(drawn.value.raw_image))
                    ELSE Decode(TheOne(drawn.value.encoded_data))
           mark == IF ts.watermark = None THEN {} ELSE {Filled(g.tile_sx, g.tile_sy, ts.watermark)}
           views == Split(g, whole.value, MetaSize(g, m, ts.metasize), ts.metabuffer, mark)
           tiles == [p \in DOMAIN views |-> IF Failed(views[p]) THEN views[p] ELSE WrittenAs(cfg, ts, views[p].value)]
           bad == {p \in DOMAIN tiles : Failed(tiles[p])}
           sent == [p \in MetaTiles(g, m, ts.metasize) |-> TheOne(drawn.value.encoded_data)]
           values == [p \in DOMAIN tiles |-> tiles[p].value]
           made == RenderMetatile(cfg, t, m, answer)
<1>1. made = IF Failed(drawn) THEN drawn
             ELSE IF ts.format = None THEN Good(sent)
             ELSE IF Failed(whole) THEN whole
             ELSE IF bad # {} THEN Bad(500)
             ELSE Good(values)
  BY Zenon DEF RenderMetatile
<1>2. ~Failed(made) /\ Failed(Bad(500)) BY BadFails
<1>3. DOMAIN views = MetaTiles(g, m, ts.metasize) BY DEF Split, MetaTiles
<1>4. DOMAIN values = DOMAIN views
  <2> HIDE DEF views
  <2>1. DOMAIN tiles = DOMAIN views OBVIOUS
  <2> HIDE DEF tiles
  <2> QED BY <2>1
<1>5. DOMAIN sent = MetaTiles(g, m, ts.metasize) OBVIOUS
<1> HIDE DEF made, drawn, whole, bad, sent, values, tiles, views
<1>6. made = Good(sent) \/ made = Good(values) BY <1>1, <1>2, Zenon
<1>7. made.value = sent \/ made.value = values BY <1>6 DEF Good
<1> QED BY <1>3, <1>4, <1>5, <1>7 DEF made

(* What one work leaves: nothing, or all of the tiles of its metatile.     *)
LEMMA WorkLeavesAll ==
  ASSUME NEW cfg, NEW t, NEW answer
  PROVE  LET work == Work(cfg, t, answer)
             made == RenderMetatile(cfg, t, BlockOf(t), answer)
             places == MetaTiles(t.grid_link.grid, BlockOf(t), t.tileset.metasize)
         IN  /\ Failed(made) => work.code = made.code /\ work.stores = << >> /\ work.alone = NoData
             /\ ~Failed(made) =>
                  /\ work.code = 0 /\ DOMAIN made.value = places
                  /\ DOMAIN work.stores = {CacheKey(cfg, TileOfBlock(t, p)) : p \in places}
                  /\ \A k \in DOMAIN work.stores :
                       \E p \in places : k = CacheKey(cfg, TileOfBlock(t, p)) /\ work.stores[k] = made.value[p]
                  /\ work.alone = NoData \/ (places = {[i |-> 0, j |-> 0]} /\ work.alone = made.value[[i |-> 0, j |-> 0]])
<1> DEFINE work == Work(cfg, t, answer)
           made == RenderMetatile(cfg, t, BlockOf(t), answer)
           places == MetaTiles(t.grid_link.grid, BlockOf(t), t.tileset.metasize)
           data == made.value
           only == [i |-> 0, j |-> 0]
           key == [p \in DOMAIN data |-> CacheKey(cfg, TileOfBlock(t, p))]
<1>1. work = IF Failed(made) THEN [code |-> made.code, stores |-> << >>, alone |-> NoData]
             ELSE [code |-> 0, stores |-> Tabled(Stores(cfg, t, data)),
                   alone |-> IF DOMAIN data = {only} THEN data[only] ELSE NoData]
  BY Zenon DEF Work
<1>2. Failed(made) => work.code = made.code /\ work.stores = << >> /\ work.alone = NoData
  <2> HIDE DEF made, work
  <2> QED BY <1>1
<1>3. ~Failed(made) => DOMAIN data = places BY RenderedPlaces
<1>4. Stores(cfg, t, data) = [k \in {key[p] : p \in DOMAIN data} |-> data[CHOOSE p \in DOMAIN data : key[p] = k]]
  BY Zenon DEF Stores
<1> HIDE DEF made, work, places
<1>5. ASSUME ~Failed(made)
      PROVE  /\ work.code = 0 /\ DOMAIN work.stores = {CacheKey(cfg, TileOfBlock(t, p)) : p \in places}
             /\ \A k \in DOMAIN work.stores :
                  \E p \in places : k = CacheKey(cfg, TileOfBlock(t, p)) /\ work.stores[k] = data[p]
             /\ work.alone = NoData \/ (places = {only} /\ work.alone = data[only])
  <2>1. DOMAIN data = places BY <1>3, <1>5
  <2>2. work.code = 0 /\ work.stores = Stores(cfg, t, data)
        /\ work.alone = IF DOMAIN data = {only} THEN data[only] ELSE NoData
    <3> HIDE DEF data
    <3> QED BY <1>1, <1>5 DEF Tabled
  <2>3. \A p \in places : key[p] = CacheKey(cfg, TileOfBlock(t, p)) BY <2>1
  <2> HIDE DEF data, key
  <2>4. DOMAIN work.stores = {key[p] : p \in places}
        /\ \A k \in DOMAIN work.stores : work.stores[k] = data[CHOOSE p \in places : key[p] = k]
    BY <1>4, <2>1, <2>2
  <2>5. {key[p] : p \in places} = {CacheKey(cfg, TileOfBlock(t, p)) : p \in places} BY <2>3
  <2>6. ASSUME NEW k \in DOMAIN work.stores
        PROVE  \E p \in places : k = CacheKey(cfg, TileOfBlock(t, p)) /\ work.stores[k] = data[p]
    <3> DEFINE p == CHOOSE q \in places : key[q] = k
    <3>1. \E q \in places : key[q] = k BY <2>4
    <3>2. p \in places /\ key[p] = k BY <3>1
    <3> QED BY <2>3, <2>4, <3>2
  <2> QED BY <2>1, <2>2, <2>4, <2>5, <2>6
<1> QED BY <1>2, <1>3, <1>5, Zenon DEF data, made, work, places

(* The tiles of a metatile are those at its places.                        *)
LEMMA BlockHoldsTile ==
  ASSUME NEW u, NEW t, OnItsGrid(u), OnItsGrid(t), BlockOf(u) = BlockOf(t), u.tileset = t.tileset,
         u.grid_link.grid = t.grid_link.grid, u.dimensions = t.dimensions
  PROVE  \E p \in MetaTiles(u.grid_link.grid, BlockOf(u), u.tileset.metasize) : SameTile(TileOfBlock(u, p), t)
<1> DEFINE g == t.grid_link.grid
           size == t.tileset.metasize
           place == [x |-> t.x, y |-> t.y, z |-> t.z]
<1>1. IsGrid(g) /\ IsSize(size) /\ t.z \in DOMAIN g.levels /\ place \in TilesOf(g, t.z) BY DEF OnItsGrid
<1>2. MetatileOf(place, size) = BlockOf(t) BY DEF MetatileOf, BlockOf
<1> HIDE DEF g, size
<1>3. \E p \in MetaTiles(g, MetatileOf(place, size), size) : TileAt(MetatileOf(place, size), size, p) = place
  <2> HIDE DEF place
  <2> QED BY <1>1, EveryTileHasItsPlace
<1>4. PICK p \in MetaTiles(g, BlockOf(t), size) : TileAt(BlockOf(t), size, p) = place BY <1>2, <1>3
<1>5. u.z = t.z BY DEF BlockOf, MetatileOf
<1>6. TileAt(BlockOf(u), u.tileset.metasize, p) = place BY <1>4 DEF size
<1>7. SameTile(TileOfBlock(u, p), t)
  <2>1. /\ TileOfBlock(u, p).tileset = u.tileset /\ TileOfBlock(u, p).grid_link = u.grid_link
        /\ TileOfBlock(u, p).dimensions = u.dimensions /\ TileOfBlock(u, p).z = u.z
        /\ TileOfBlock(u, p).x = place.x /\ TileOfBlock(u, p).y = place.y
    BY <1>6, FieldsOfBlock
  <2>2. place.x = t.x /\ place.y = t.y OBVIOUS
  <2> HIDE DEF place
  <2> QED BY <1>5, <2>1, <2>2 DEF SameTile
<1> QED BY <1>4, <1>7 DEF g, size

LEMMA BlockOfItsTiles ==
  ASSUME NEW u, OnItsGrid(u), NEW p \in MetaTiles(u.grid_link.grid, BlockOf(u), u.tileset.metasize)
  PROVE  BlockOf(TileOfBlock(u, p)) = BlockOf(u)
<1> DEFINE g == u.grid_link.grid
           size == u.tileset.metasize
           m == BlockOf(u)
           place == TileAt(m, size, p)
           t == TileOfBlock(u, p)
<1>1. IsGrid(g) /\ IsSize(size) /\ u.z \in DOMAIN g.levels /\ [x |-> u.x, y |-> u.y, z |-> u.z] \in TilesOf(g, u.z)
  BY DEF OnItsGrid
<1>2. u.x \in Nat /\ u.y \in Nat
  BY <1>1 DEF TilesOf, IsGrid
<1>3. size.x \in Nat \ {0} /\ size.y \in Nat \ {0} BY <1>1 DEF IsSize, Side
<1>4. m = [x |-> u.x \div size.x, y |-> u.y \div size.y, z |-> u.z] BY DEF BlockOf, MetatileOf
<1>5. u.x \div size.x \in Nat /\ u.y \div size.y \in Nat BY <1>2, <1>3
<1>6. m.x \in Nat /\ m.y \in Nat /\ m.z \in DOMAIN g.levels /\ m = [x |-> m.x, y |-> m.y, z |-> m.z]
  BY <1>1, <1>4, <1>5
<1>7. t.tileset = u.tileset /\ t.x = place.x /\ t.y = place.y /\ t.z = u.z /\ place.z = u.z BY FieldsOfBlock
<1>8. p \in MetaTiles(g, m, size) OBVIOUS
<1> HIDE DEF g, size, m, t
<1>9. MetatileOf(place, size) = m
  <2> HIDE DEF place
  <2> QED BY <1>1, <1>6, <1>8, MetatilesHoldTheirTiles DEF place
<1> HIDE DEF place
<1>10. BlockOf(t) = MetatileOf(place, size) BY <1>7 DEF BlockOf, MetatileOf, size
<1> QED BY <1>9, <1>10 DEF t, m

LEMMA OneBlock ==
  ASSUME NEW s, NEW t, SameBlock(s, t), s.z = t.z PROVE BlockOf(s) = BlockOf(t)
BY DEF SameBlock, BlockOf, MetatileOf

(* Whoever keeps a tile that a document wants made the whole of its        *)
(* metatile: the others are kept where this document looks for them.       *)
LEMMA KeptTogether ==
  ASSUME KeysApart(Documents), Origin, NEW e \in DOMAIN Documents, Site[e] # {},
         NEW s, NEW t, OnItsGrid(s), OnItsGrid(t), s \in TilesWanted(e), BlockOf(s) = BlockOf(t),
         s.tileset = t.tileset, s.grid_link.grid = t.grid_link.grid, s.dimensions = t.dimensions,
         \A d \in DOMAIN Documents : \A u \in TilesWanted(d) : Site[d] # {} => OnItsGrid(u),
         CacheKey(Cfg(e), s) \in DOMAIN stored
  PROVE  CacheKey(Cfg(e), t) \in DOMAIN stored
<1> DEFINE key == CacheKey(Cfg(e), s)
<1>1. PICK d, u, a : Works(d, u, a) /\ key \in DOMAIN Made(d, u, a) /\ DOMAIN Made(d, u, a) \subseteq DOMAIN stored
  BY Zenon DEF Origin
<1> DEFINE places == MetaTiles(u.grid_link.grid, BlockOf(u), u.tileset.metasize)
<1>2. d \in DOMAIN Documents /\ Site[d] # {} /\ u \in TilesWanted(d) /\ OnItsGrid(u) /\ u.tileset.source # None
  BY <1>1 DEF Works, Loaded
<1>3. DOMAIN Made(d, u, a) = {CacheKey(Cfg(d), TileOfBlock(u, p)) : p \in places}
  <2>1. DOMAIN << >> = {} OBVIOUS
  <2> DEFINE made == RenderMetatile(Cfg(d), u, BlockOf(u), a)
             keys == {CacheKey(Cfg(d), TileOfBlock(u, p)) : p \in places}
  <2>2. /\ Failed(made) => Made(d, u, a) = << >>
        /\ ~Failed(made) => DOMAIN Made(d, u, a) = keys
    BY WorkLeavesAll DEF Made
  <2> HIDE DEF made, keys
  <2>3. DOMAIN Made(d, u, a) # {} BY <1>1
  <2>4. DOMAIN Made(d, u, a) = keys BY <2>1, <2>2, <2>3
  <2> QED BY <2>4 DEF keys
<1>4. PICK p \in places : key = CacheKey(Cfg(d), TileOfBlock(u, p)) BY <1>1, <1>3, Zenon
<1> DEFINE v == TileOfBlock(u, p)
<1>5. d \in Loaded(Documents) /\ e \in Loaded(Documents) /\ v \in BlockTiles(u) /\ CacheKey(Cfg(d), v) = CacheKey(Cfg(e), s)
  BY <1>2, <1>4 DEF Loaded, BlockTiles
<1>6. /\ SameTile(v, s) /\ Cfg(d).caches[v.tileset.cache] = Cfg(e).caches[v.tileset.cache]
  BY <1>2, <1>5, Zenon DEF KeysApart
<1>7. v.tileset = u.tileset /\ v.grid_link = u.grid_link /\ v.dimensions = u.dimensions BY <1>2, FieldsOfBlock
<1>8. BlockOf(v) = BlockOf(u) BY <1>2, BlockOfItsTiles
<1> HIDE DEF v, places
<1>9. BlockOf(v) = BlockOf(s) BY <1>6 DEF SameTile, BlockOf, MetatileOf
<1>10. BlockOf(u) = BlockOf(t) /\ u.tileset = t.tileset /\ u.grid_link.grid = t.grid_link.grid /\ u.dimensions = t.dimensions
  BY <1>6, <1>7, <1>8, <1>9 DEF SameTile
<1>11. PICK q \in places : SameTile(TileOfBlock(u, q), t) BY <1>2, <1>10, BlockHoldsTile DEF places
<1>12. Cfg(d).caches[TileOfBlock(u, q).tileset.cache] = Cfg(e).caches[TileOfBlock(u, q).tileset.cache]
  <2>1. TileOfBlock(u, q).tileset = v.tileset BY <1>2, <1>7, FieldsOfBlock, Zenon
  <2> QED BY <1>6, <2>1
<1>13. CacheKey(Cfg(d), TileOfBlock(u, q)) = CacheKey(Cfg(e), t) BY <1>11, <1>12, SameCacheKey
<1>14. CacheKey(Cfg(e), t) \in DOMAIN Made(d, u, a) BY <1>3, <1>13
<1> QED BY <1>1, <1>14

(* A tile that is kept is not rendered.                                    *)
LEMMA OnlyWhatIsMissing ==
  ASSUME KeptInv, pc \in {"fetch", "rest"}, NEW n \in DOMAIN Tiles, NEW way, FetchTile(n, way), got'[n].how = "rendered"
  PROVE  CacheKey(Cfg(config), Tiles[n]) \notin DOMAIN stored /\ Tiles[n].tileset.source # None
<1> DEFINE t == Tiles[n]
           cfg == Cfg(config)
           want == Wanted(cfg, t)
           f == Fetch(Now.wants[n], way)
<1>1. config \in DOMAIN Documents /\ Site[config] # {} /\ request \in DOMAIN Requests
  BY DEF KeptInv, Working, Requested, Documented
<1>2. n \in DOMAIN Handled(config, request).wants /\ t = Handled(config, request).wants[n].tile BY DEF Tiles, Now
<1>3. Now.wants[n] = want BY <1>1, <1>2, WantedOf, Zenon DEF Now
<1>4. got'[n] = f.outcome
  <2> HIDE DEF f
  <2>1. got' = [m \in DOMAIN got \cup {n} |-> IF m = n THEN f.outcome ELSE got[m]]
    BY Zenon DEF FetchTile, f
  <2> QED BY <2>1
<1>5. want.key = CacheKey(cfg, t) /\ (t.tileset.source = None => want.work = << >>) BY PartsOfWanted
<1> HIDE DEF want, t, cfg
<1>6. want.key \in DOMAIN stored => f.outcome.how = "hit" BY <1>3 DEF Fetch, Fetched
<1>7. want.key \notin DOMAIN stored /\ want.work = << >> => f.outcome.how = "no source" BY <1>3 DEF Fetch, Fetched
<1> HIDE DEF f
<1>8. want.key \notin DOMAIN stored /\ want.work # << >> BY <1>4, <1>6, <1>7
<1> QED BY <1>5, <1>8 DEF t, cfg

(* The threads are those of the first tiles of their metatiles.            *)
LEMMA FirstOfItsBlock ==
  ASSUME NEW tiles, NEW l \in Nat, DOMAIN tiles = 1 .. l, NEW n \in DOMAIN tiles
  PROVE  \E m \in Launched(tiles) : SameBlock(tiles[m], tiles[n])
<1> DEFINE T == {k \in DOMAIN tiles : SameBlock(tiles[k], tiles[n])}
<1>1. n \in T BY DEF SameBlock
<1>2. T \in SUBSET Nat OBVIOUS
<1>3. PICK m \in T : \A k \in T : m <= k BY <1>1, <1>2, LeastNatural
<1>4. ASSUME NEW k \in 1 .. m - 1, SameBlock(tiles[k], tiles[m]) PROVE FALSE
  <2>1. m \in 1 .. l /\ k \in 1 .. l /\ k < m BY <1>3
  <2>2. SameBlock(tiles[m], tiles[n]) BY <1>3
  <2>3. SameBlock(tiles[k], tiles[n]) BY <1>4, <2>2 DEF SameBlock
  <2>4. k \in T BY <2>1, <2>3
  <2> QED BY <1>3, <2>1, <2>4
<1>5. m \in Launched(tiles) BY <1>3, <1>4 DEF Launched
<1> QED BY <1>3, <1>5

(* Of the threads that fetched, none failed where the request goes on.     *)
RestInv ==
  /\ pc = "fetch" /\ Threaded(Cfg(config), Tiles) => DOMAIN got \subseteq Launched(Tiles)
  /\ pc = "rest" =>
       /\ Launched(Tiles) \subseteq DOMAIN got
       /\ error = 0 => \A m \in Launched(Tiles) : got[m].code = 0
  /\ ThreadsRenderForTheRest

LEMMA FetchingTheRest ==
  ASSUME KeysApart(Documents), BlocksTogether(Documents), KeptInv, CameInv, RestInv, pc = "rest", error = 0,
         NEW n \in Rest, NEW way, FetchTile(n, way), got'[n].how = "rendered"
  PROVE  \E m \in Launched(Tiles) : SameBlock(Tiles[m], Tiles[n]) /\ got[m].how = "waited"
<1>1. config \in DOMAIN Documents /\ Site[config] # {} /\ request \in DOMAIN Requests
  BY DEF KeptInv, Working, Requested, Documented
<1> DEFINE wants == Handled(config, request).wants
<1>2. DOMAIN Tiles = DOMAIN wants /\ (\A k \in DOMAIN Tiles : Tiles[k] = wants[k].tile) /\ n \in DOMAIN Tiles
  BY DEF Tiles, Now, Rest
<1>3. Len(wants) \in Nat /\ DOMAIN Tiles = 1 .. Len(wants) BY <1>1, <1>2, WhatIsWanted
<1>4. PICK m \in Launched(Tiles) : SameBlock(Tiles[m], Tiles[n]) BY <1>2, <1>3, FirstOfItsBlock
<1>5. m \in DOMAIN Tiles /\ m \in DOMAIN got /\ got[m].code = 0 /\ Came(m) BY <1>4 DEF RestInv, Launched, CameInv
<1>6. CacheKey(Cfg(config), Tiles[n]) \notin DOMAIN stored /\ Tiles[n].tileset.source # None
  BY <1>2, OnlyWhatIsMissing
<1>7. /\ OnItsGrid(Tiles[m]) /\ OnItsGrid(Tiles[n]) /\ Tiles[m] \in TilesWanted(config)
  BY <1>1, <1>2, <1>5, WantedOf, Zenon
<1>8. /\ Tiles[m].tileset = Tiles[n].tileset /\ Tiles[m].grid_link.grid = Tiles[n].grid_link.grid
      /\ Tiles[m].dimensions = Tiles[n].dimensions /\ Tiles[m].z = Tiles[n].z
  <2>1. config \in Loaded(Documents) BY <1>1 DEF Loaded
  <2> HIDE DEF wants
  <2>2. \A i, k \in DOMAIN wants : SameBlock(wants[i].tile, wants[k].tile) =>
          /\ wants[i].tile.grid_link.grid = wants[k].tile.grid_link.grid
          /\ wants[i].tile.dimensions = wants[k].tile.dimensions
          /\ wants[i].tile.z = wants[k].tile.z
    BY <1>1, <2>1, Zenon DEF BlocksTogether, wants
  <2> QED BY <1>2, <1>4, <1>5, <2>2 DEF SameBlock
<1>9. BlockOf(Tiles[m]) = BlockOf(Tiles[n]) BY <1>4, <1>8, OneBlock
<1>10. \A d \in DOMAIN Documents : \A u \in TilesWanted(d) : Site[d] # {} => OnItsGrid(u)
  <2> SUFFICES ASSUME NEW d \in DOMAIN Documents, NEW u \in TilesWanted(d), Site[d] # {} PROVE OnItsGrid(u) OBVIOUS
  <2>1. PICK r \in DOMAIN Requests : \E k \in DOMAIN Handled(d, r).wants : u = Handled(d, r).wants[k].tile
    BY DEF TilesWanted
  <2>2. PICK k \in DOMAIN Handled(d, r).wants : u = Handled(d, r).wants[k].tile BY <2>1
  <2> QED BY <2>2, WantedOf, Zenon
<1>11. CacheKey(Cfg(config), Tiles[m]) \notin DOMAIN stored
  <2> SUFFICES ASSUME CacheKey(Cfg(config), Tiles[m]) \in DOMAIN stored PROVE FALSE OBVIOUS
  <2>1. Origin BY DEF CameInv
  <2>2. CacheKey(Cfg(config), Tiles[n]) \in DOMAIN stored
    BY <1>1, <1>7, <1>8, <1>9, <1>10, <2>1, KeptTogether
  <2> QED BY <1>6, <2>2
<1>12. CASE Hit(m) BY <1>11, <1>12 DEF Hit
<1>13. CASE Nowhere(m) BY <1>6, <1>8, <1>13 DEF Nowhere
<1>14. CASE Rendered(m)
  <2>1. PICK a : Works(config, Tiles[m], a) /\ ~Failed(Work(Cfg(config), Tiles[m], a))
                 /\ DOMAIN Made(config, Tiles[m], a) \subseteq DOMAIN stored
    BY <1>14, Zenon DEF Rendered
  <2> DEFINE made == RenderMetatile(Cfg(config), Tiles[m], BlockOf(Tiles[m]), a)
             places == MetaTiles(Tiles[m].grid_link.grid, BlockOf(Tiles[m]), Tiles[m].tileset.metasize)
  <2>2. DOMAIN Made(config, Tiles[m], a) = {CacheKey(Cfg(config), TileOfBlock(Tiles[m], p)) : p \in places}
    <3> DEFINE keys == {CacheKey(Cfg(config), TileOfBlock(Tiles[m], p)) : p \in places}
               work == Work(Cfg(config), Tiles[m], a)
    <3>1. /\ Failed(made) => work.code = made.code
          /\ ~Failed(made) => DOMAIN Made(config, Tiles[m], a) = keys
      BY WorkLeavesAll DEF Made
    <3> HIDE DEF made, keys, work
    <3>2. ~Failed(made) BY <2>1, <3>1 DEF Failed, work
    <3> QED BY <3>1, <3>2 DEF keys
  <2>3. PICK p \in places : SameTile(TileOfBlock(Tiles[m], p), Tiles[n]) BY <1>7, <1>8, <1>9, BlockHoldsTile
  <2>4. CacheKey(Cfg(config), TileOfBlock(Tiles[m], p)) = CacheKey(Cfg(config), Tiles[n])
    BY <2>3, SameCacheKey
  <2>5. CacheKey(Cfg(config), TileOfBlock(Tiles[m], p)) \in DOMAIN Made(config, Tiles[m], a) BY <2>2
  <2> QED BY <1>6, <2>1, <2>4, <2>5
<1>15. CASE Unfetched(m) BY <1>5, <1>15 DEF Unfetched
<1>16. CASE Waited(m) BY <1>4, <1>16 DEF Waited
<1> QED BY <1>5, <1>12, <1>13, <1>14, <1>15, <1>16 DEF Came

LEMMA RestStart == Init => RestInv
BY DEF Init, RestInv, ThreadsRenderForTheRest

LEMMA RestStays ==
  ASSUME KeysApart(Documents), BlocksTogether(Documents)
  PROVE  RestInv /\ CameInv /\ KeptInv /\ [Next]_vars => RestInv'
<1> SUFFICES ASSUME RestInv, CameInv, KeptInv, [Next]_vars PROVE RestInv' OBVIOUS
<1>1. CASE Fetches
  <2>1. PICK n \in DOMAIN Tiles, way \in Ways :
          /\ FetchTile(n, way)
          /\ \/ pc = "fetch" /\ (Threaded(Cfg(config), Tiles) => n \in Launched(Tiles))
             \/ pc = "rest" /\ error = 0 /\ n \in Rest
    BY <1>1 DEF Fetches
  <2>2. UNCHANGED <<config, request, pc>> /\ pc \in {"fetch", "rest"} /\ Origin BY <1>1, <2>1 DEF Fetches, CameInv
  <2>3. /\ Tiles' = Tiles /\ DOMAIN got' = DOMAIN got \cup {n} /\ \A m \in DOMAIN got \ {n} : got'[m] = got[m]
    BY <2>1, <2>2, FetchComes
  <2>4. CASE pc = "fetch"
    BY <2>1, <2>2, <2>3, <2>4 DEF RestInv, ThreadsRenderForTheRest
  <2>5. CASE pc = "rest"
    <3>1. error = 0 /\ n \in Rest /\ n \notin DOMAIN got BY <2>1, <2>5 DEF Rest
    <3>2. got'[n].how = "rendered" => \E m \in Launched(Tiles) : SameBlock(Tiles[m], Tiles[n]) /\ got[m].how = "waited"
      BY <2>1, <2>5, <3>1, FetchingTheRest
    <3>3. \A m \in DOMAIN got : got'[m] = got[m] BY <2>3, <3>1
    <3>4. Launched(Tiles) \subseteq DOMAIN got /\ \A m \in Launched(Tiles) : got[m].code = 0
      BY <2>5, <3>1 DEF RestInv
    <3>5. ThreadsRenderForTheRest'
      <4> SUFFICES ASSUME NEW k \in DOMAIN got' \ Launched(Tiles), got'[k].how = "rendered"
          PROVE  \E m \in Launched(Tiles) : SameBlock(Tiles[m], Tiles[k]) /\ got'[m].how = "waited"
        BY <2>3 DEF ThreadsRenderForTheRest
      <4>1. \E m \in Launched(Tiles) : SameBlock(Tiles[m], Tiles[k]) /\ got[m].how = "waited"
        <5>1. CASE k = n BY <3>2, <5>1
        <5>2. CASE k # n
          <6>1. k \in DOMAIN got \ Launched(Tiles) /\ got[k].how = "rendered" BY <2>3, <3>3, <5>2
          <6> QED BY <2>5, <6>1 DEF RestInv, ThreadsRenderForTheRest
        <5> QED BY <5>1, <5>2
      <4> QED BY <3>3, <3>4, <4>1
    <3>6. Launched(Tiles) \subseteq DOMAIN got' /\ \A m \in Launched(Tiles) : got'[m].code = 0
      BY <2>3, <3>3, <3>4
    <3>7. pc' = "rest" BY <2>2, <2>5
    <3> QED BY <2>3, <3>5, <3>6, <3>7 DEF RestInv
  <2> QED BY <2>2, <2>4, <2>5
<1>2. CASE Empties
  BY <1>2 DEF Empties, RestInv, ThreadsRenderForTheRest
<1>3. CASE Keeps
  <2>1. UNCHANGED <<stored, got, config, request>> /\ Tiles' = Tiles BY <1>3 DEF Keeps, Tiles, Now
  <2>2. CASE pc' = "rest" /\ JoinThreads
    <3>1. /\ pc = "fetch" /\ Threaded(Cfg(config), Tiles) /\ Launched(Tiles) \subseteq DOMAIN got
          /\ error' = LET bad == {n \in Launched(Tiles) : Failed(got[n])} IN IF bad = {} THEN 0 ELSE got[Lowest(bad)].code
      BY <2>2, Zenon DEF JoinThreads, Fetching
    <3>2. DOMAIN got \subseteq Launched(Tiles) BY <3>1 DEF RestInv
    <3>3. ASSUME error' = 0 PROVE \A m \in Launched(Tiles) : got[m].code = 0
      <4> DEFINE bad == {n \in Launched(Tiles) : Failed(got[n])}
      <4>1. bad = {}
        <5> SUFFICES ASSUME bad # {} PROVE FALSE OBVIOUS
        <5>1. DOMAIN Tiles \subseteq Nat
          <6>1. config \in DOMAIN Documents /\ Site[config] # {} /\ request \in DOMAIN Requests
            BY <3>1 DEF KeptInv, Documented, Working, Requested
          <6> QED BY <6>1, WhatIsWanted DEF Tiles, Now
        <5>2. Lowest(bad) \in bad BY <5>1, LowestNatural DEF Launched
        <5>3. got[Lowest(bad)].code # 0 BY <5>2 DEF Failed
        <5> QED BY <3>1, <3>3, <5>3
      <4> QED BY <4>1 DEF Failed
    <3> QED BY <2>1, <2>2, <3>1, <3>2, <3>3 DEF RestInv, ThreadsRenderForTheRest
  <2>3. CASE pc' = "rest" /\ pc = "rest" /\ UNCHANGED error
    BY <2>1, <2>3 DEF RestInv, ThreadsRenderForTheRest
  <2>4. CASE pc' # "rest"
    <3>1. pc' = "fetch" => pc = "fetch" BY <1>3 DEF Keeps, Answering
    <3> QED BY <2>1, <2>4, <3>1 DEF RestInv, ThreadsRenderForTheRest
  <2> QED BY <1>3, <2>2, <2>3, <2>4 DEF Keeps
<1> QED BY <1>1, <1>2, <1>3, HowItMoves

(* Whatever the documents make of the requests, whatever was kept before   *)
(* and whatever the sources and the other processes do, as long as what is *)
(* kept under one key is one tile, and the tiles of a request that lie in  *)
(* one metatile are of one level, grid and dimensions: after its threads   *)
(* mapcache_prefetch_tiles renders only where a thread had to wait.        *)
THEOREM ThreadsEnough ==
  ASSUME KeysApart(Documents), BlocksTogether(Documents)
  PROVE  Spec => []ThreadsRenderForTheRest
<1>1. RestInv /\ CameInv /\ KeptInv /\ [Next]_vars => RestInv' BY RestStays
<1>2. RestInv => ThreadsRenderForTheRest BY DEF RestInv
<1>3. Spec => []HarmInv BY HarmStart, HarmStays, PTL DEF Spec
<1> QED BY KeptStart, KeptStays, CameStart, CameStays, RestStart, <1>1, <1>2, <1>3, PTL DEF Spec

-----------------------------------------------------------------------------
(* What the process has, and the codes that are told.                       *)

Coded(outcome) == outcome.code \in Codes

LEMMA GoodCoded == ASSUME NEW value PROVE Coded(Good(value))
BY DEF Coded, Good, Codes

LEMMA BadCoded == ASSUME NEW code \in Codes PROVE Coded(Bad(code))
BY DEF Coded, Bad

LEMMA RefusalsCoded == Coded(Bad(400)) /\ Coded(Bad(404)) /\ Coded(Bad(500)) /\ Coded(Bad(502))
BY BadCoded DEF Codes

LEMMA WriteCoded == ASSUME NEW format, NEW image, Writable(format) PROVE Coded(Write(format, image))
<1>1. MixedMember(format, image).type \in Pictures BY SMT DEF Writable, MixedMember, Pictures
<1>2. Write(format, image) \in {PngEncode(image), JpegEncode(image), RawEncode(image), JsonEncode(image)}
  BY <1>1, Zenon DEF Write, Pictures
<1>3. Coded(PngEncode(image)) /\ Coded(JpegEncode(image)) BY GoodCoded, Zenon DEF PngEncode, JpegEncode
<1>4. Coded(RawEncode(image)) /\ Coded(JsonEncode(image))
  BY GoodCoded, RefusalsCoded, Zenon DEF RawEncode, JsonEncode
<1> QED BY <1>2, <1>3, <1>4, Zenon

LEMMA DecodeCoded == ASSUME NEW data PROVE Coded(Decode(data))
<1>1. Coded(PngDecode(data)) /\ Coded(JpegDecode(data)) /\ Coded(RawDecode(data))
  BY GoodCoded, Zenon DEF PngDecode, JpegDecode, RawDecode
<1>2. Decode(data) \in {PngDecode(data), JpegDecode(data), RawDecode(data), Bad(500)} BY DEF Decode
<1> QED BY <1>1, <1>2, RefusalsCoded, Zenon

LEMMA SaidCoded ==
  ASSUME NEW answer \in BackendAnswers, NEW picture
  PROVE  Coded(DoRequest(answer, picture)) /\ Coded(AsPicture(DoRequest(answer, picture)))
<1> DEFINE said == DoRequest(answer, picture)
<1>1. said \in {Good(Encoded("PNG", picture)), Good(Encoded("text", picture)), Bad(502)}
  BY Zenon DEF BackendAnswers, DoRequest
<1> HIDE DEF said
<1>2. Coded(said) BY <1>1, GoodCoded, RefusalsCoded, Zenon
<1>3. Coded(AsPicture(said)) BY <1>2, GoodCoded, RefusalsCoded, Zenon DEF AsPicture
<1> QED BY <1>2, <1>3 DEF said

LEMMA DrawnCoded ==
  ASSUME NEW cfg, NEW map, NEW answer \in BackendAnswers,
         cfg.sources[map.tileset.source].type \in {"wms", "tms", "mapserver", "dummy"}
  PROVE  Coded(RenderMap(cfg, map, answer))
<1> DEFINE source == cfg.sources[map.tileset.source]
<1>1. Coded(WmsRender(source, map, answer)) BY SaidCoded, Zenon DEF WmsRender
<1>2. Coded(TmsRender(source, map, answer))
  <2> DEFINE received == AsPicture(DoRequest(answer, TmsTile(source, map.grid_link.grid, TileCoords(map, source.flipy))))
             raster == TheOne(received.value.encoded_data).image
             also == Good([received.value EXCEPT !.raw_image = {Raster(raster.w, raster.h, raster.px)}])
  <2>1. TmsRender(source, map, answer) \in {received, Bad(500), also} BY Zenon DEF TmsRender
  <2>2. Coded(received) /\ Coded(also) BY SaidCoded, GoodCoded, Zenon
  <2> HIDE DEF also, received, raster
  <2> QED BY <2>1, <2>2, RefusalsCoded
<1>3. Coded(MapserverRender(source, map, answer)) BY GoodCoded, RefusalsCoded, Zenon DEF MapserverRender
<1>4. Coded(DummyRender(map)) BY GoodCoded, Zenon DEF DummyRender
<1>5. RenderMap(cfg, map, answer) \in {WmsRender(source, map, answer), TmsRender(source, map, answer),
                                       MapserverRender(source, map, answer), DummyRender(map)}
  BY DEF RenderMap
<1> HIDE DEF source
<1> QED BY <1>1, <1>2, <1>3, <1>4, <1>5, Zenon

LEMMA WorkCoded ==
  ASSUME NEW cfg, NEW t, NEW answer \in BackendAnswers, Sound(cfg, t.tileset), t.tileset.source # None
  PROVE  Work(cfg, t, answer).code \in Codes
<1> DEFINE ts == t.tileset
           m == BlockOf(t)
           g == t.grid_link.grid
           drawn == RenderMap(cfg, MapOf(t, m), answer)
           whole == IF drawn.value.raw_image # {} THEN Good(TheOne(drawn.value.raw_image))
                    ELSE Decode(TheOne(drawn.value.encoded_data))
           mark == IF ts.watermark = None THEN {} ELSE {Filled(g.tile_sx, g.tile_sy, ts.watermark)}
           views == Split(g, whole.value, MetaSize(g, m, ts.metasize), ts.metabuffer, mark)
           tiles == [p \in DOMAIN views |-> IF Failed(views[p]) THEN views[p] ELSE WrittenAs(cfg, ts, views[p].value)]
           bad == {p \in DOMAIN tiles : Failed(tiles[p])}
           sent == [p \in MetaTiles(g, m, ts.metasize) |-> TheOne(drawn.value.encoded_data)]
           values == [p \in DOMAIN tiles |-> tiles[p].value]
           made == RenderMetatile(cfg, t, m, answer)
<1>1. made = IF Failed(drawn) THEN drawn
             ELSE IF ts.format = None THEN Good(sent)
             ELSE IF Failed(whole) THEN whole
             ELSE IF bad # {} THEN Bad(500)
             ELSE Good(values)
  BY Zenon DEF RenderMetatile
<1>2. Coded(drawn)
  <2>1. MapOf(t, m).tileset = ts BY DEF MapOf, Map
  <2>2. cfg.sources[ts.source].type \in {"wms", "tms", "mapserver", "dummy"} BY DEF Sound
  <2> QED BY <2>1, <2>2, DrawnCoded
<1>3. Coded(whole) BY GoodCoded, DecodeCoded, Zenon
<1> HIDE DEF made, drawn, whole, bad, sent, values
<1>4. Coded(made) BY <1>1, <1>2, <1>3, GoodCoded, RefusalsCoded, Zenon
<1>5. Failed(made) => Work(cfg, t, answer).code = made.code BY WorkLeavesAll DEF made
<1>6. ~Failed(made) => Work(cfg, t, answer).code = 0 BY WorkLeavesAll DEF made
<1> QED BY <1>4, <1>5, <1>6 DEF Coded, Codes

LEMMA TileAnswerCoded ==
  ASSUME NEW cfg, NEW parsed, NEW tiles, Writable(cfg.default_format), DOMAIN tiles \subseteq Nat,
         parsed.format # None => Writable(parsed.format),
         \A n \in DOMAIN tiles : parsed.tiles[n].tileset.format # None => Writable(parsed.tiles[n].tileset.format)
  PROVE  Coded(GetTileAnswer(cfg, parsed, tiles))
<1> DEFINE with == {n \in DOMAIN tiles : ~tiles[n].nodata}
           first == Lowest(with)
           own == parsed.tiles[first].tileset.format
           format == IF Cardinality(with) = 1 THEN own
                     ELSE IF parsed.format # None THEN parsed.format
                     ELSE IF own # None THEN own ELSE cfg.default_format
           order == InOrder(with, <)
           merged == MergeAll([n \in DOMAIN order |-> Decode(tiles[order[n]].data)])
           data == IF Cardinality(with) = 1 THEN Good(tiles[first].data)
                   ELSE IF Failed(merged) THEN Bad(500) ELSE Write(format, merged.value)
           sooner == ExpiresWithAny([n \in DOMAIN parsed.tiles |-> parsed.tiles[n].tileset], with)
           sent == Answer(data.value, ContentType(format, data.value), sooner)
           answer == GetTileAnswer(cfg, parsed, tiles)
<1>1. answer = IF with = {} THEN Bad(404) ELSE IF Failed(data) THEN data ELSE Good(sent)
  BY Zenon DEF GetTileAnswer
<1>2. with # {} => first \in DOMAIN tiles BY LowestNatural
<1>3. with # {} => Coded(data)
  <2> SUFFICES ASSUME with # {} PROVE Coded(data) OBVIOUS
  <2>1. own # None => Writable(own) BY <1>2
  <2> HIDE DEF own, merged, with, first
  <2>2. CASE Cardinality(with) = 1 BY <2>2, GoodCoded, Zenon
  <2>3. CASE Cardinality(with) # 1
    <3>1. Writable(format) BY <2>1, <2>3, Zenon
    <3> HIDE DEF format
    <3>2. Coded(Write(format, merged.value)) BY <3>1, WriteCoded
    <3> QED BY <2>3, <3>2, RefusalsCoded, Zenon
  <2> QED BY <2>2, <2>3
<1> HIDE DEF with, data, sent, answer
<1>4. answer = Bad(404) \/ (with # {} /\ answer = data) \/ answer = Good(sent) BY <1>1, Zenon
<1>5. Coded(answer) BY <1>3, <1>4, GoodCoded, RefusalsCoded
<1> QED BY <1>5 DEF answer

LEMMA MapAnswerCoded ==
  ASSUME NEW parsed, NEW tiles, Writable(parsed.format) PROVE Coded(AssembleAnswer(parsed, tiles))
<1> DEFINE maps == Tabled(FetchedMaps(parsed, MapTiles(parsed.maps), tiles))
           with == WithData(maps)
           expires == SoonestOf(parsed, with)
           merged == MergeAll([n \in DOMAIN with |-> TheOne(maps[with[n]])])
<1>1. \A image, at : Coded(MapAnswer(parsed, image, at))
  <2> SUFFICES ASSUME NEW image, NEW at PROVE Coded(MapAnswer(parsed, image, at)) OBVIOUS
  <2>1. Coded(Write(parsed.format, image)) BY WriteCoded
  <2> QED BY <2>1, GoodCoded, Zenon DEF MapAnswer
<1>2. AssembleAnswer(parsed, tiles) \in {Bad(500), Bad(404), MapAnswer(parsed, merged.value, expires)}
  <2>1. AssembleAnswer(parsed, tiles) = MapsAnswer(parsed, maps, with) BY Zenon DEF AssembleAnswer, MergedAnswer
  <2>2. MapsAnswer(parsed, maps, with) = IF \E n \in DOMAIN maps : \E m \in maps[n] : Failed(m) THEN Bad(500)
                                         ELSE IF with = << >> THEN Bad(404)
                                         ELSE IF Failed(merged) THEN Bad(500) ELSE MapAnswer(parsed, merged.value, expires)
    <3> HIDE DEF maps, with, expires
    <3> QED BY Zenon DEF MapsAnswer, expires
  <2> HIDE DEF merged, expires, maps, with
  <2> QED BY <2>1, <2>2, Zenon
<1> HIDE DEF merged, expires
<1> QED BY <1>1, <1>2, RefusalsCoded

(* Every edit is an hour of the file's, and a service a record of two.     *)
Places == {"idle", "astray", "load", "read", "dispatch", "refuse", "fetch", "rest", "forward", "page",
           "info", "proxy", "respond", "cleanup", "dead"}
ServiceRecords == [kind : ServiceNames \cup {None}, freed : BOOLEAN]
TypeInv == TypeOK /\ file.written = edits + 1 /\ service \in ServiceRecords

LEMMA ReplyCoded == ASSUME NEW code PROVE Bare(code).code = code
BY CodeOfReply DEF Bare

LEMMA TypeStart == Init => TypeInv
<1> SUFFICES ASSUME Init PROVE TypeInv OBVIOUS
<1> USE DEF Init
<1>1. frontend \in Frontends /\ file.doc \in DOMAIN Documents /\ file.written = 1 BY ServerAssumption
<1>2. mtime = 0 /\ edits = 0 /\ taken = 0 /\ MaxEdits \in Nat /\ MaxRequests \in Nat BY ServerAssumption
<1>3. {config, born} \subseteq DOMAIN Documents \cup {None} /\ memory \in {"none", "live", "freed"}
  BY ServerAssumption DEF Loads
<1>4. service \in ServiceRecords BY DEF ServiceRecords, NoService
<1>5. exceptions = "none" /\ pc = "idle" /\ request = None /\ error = 0 /\ lost \in BOOLEAN OBVIOUS
<1>6. DOMAIN got = {} OBVIOUS
<1>7. reply.code = 0 BY ReplyCoded DEF NoReply
<1> QED BY <1>1, <1>2, <1>3, <1>4, <1>5, <1>6, <1>7 DEF TypeInv, TypeOK, ServiceRecords, Codes

(* What a fetch may leave is told by a code.                               *)
LEMMA GotCoded ==
  ASSUME CameInv, NEW n \in DOMAIN got, n \in DOMAIN Tiles, config \in DOMAIN Documents, Site[config] # {},
         request \in DOMAIN Requests
  PROVE  got[n].code \in Codes
<1>1. Came(n) BY DEF CameInv
<1>2. CASE Unfetched(n)
  <2>1. got[n].code = 404 \/ \E a : Works(config, Tiles[n], a) /\ got[n].code = Work(Cfg(config), Tiles[n], a).code
    BY <1>2 DEF Unfetched
  <2>2. ASSUME NEW a, Works(config, Tiles[n], a) PROVE Work(Cfg(config), Tiles[n], a).code \in Codes
    <3>1. n \in DOMAIN Handled(config, request).wants /\ Tiles[n] = Handled(config, request).wants[n].tile
      BY DEF Tiles, Now
    <3>2. Sound(Cfg(config), Tiles[n].tileset) BY <3>1, WantedOf, Zenon
    <3> QED BY <2>2, <3>2, WorkCoded DEF Works
  <2> QED BY <2>1, <2>2 DEF Codes
<1>3. CASE Hit(n) \/ Nowhere(n) \/ Waited(n) \/ Rendered(n)
  BY <1>3 DEF Hit, Nowhere, Waited, Rendered, Codes
<1> QED BY <1>1, <1>2, <1>3 DEF Came

LEMMA FetchTyped == ASSUME NEW want, NEW way PROVE Fetch(want, way).outcome.nodata \in BOOLEAN
<1>1. \A data, how : Fetched(data, how).nodata \in BOOLEAN BY DEF Fetched
<1>2. \A code : FetchFailed(code).nodata \in BOOLEAN BY DEF FetchFailed
<1> QED BY <1>1, <1>2 DEF Fetch

(* A step in the course of a request.                                      *)
LEMMA TypeMoved ==
  ASSUME TypeInv, UNCHANGED <<frontend, file, mtime, config, memory, born, lost, request, edits>>,
         service' \in ServiceRecords, exceptions' \in {"none", "live", "freed"}, pc' \in Places, error' \in Codes,
         \A n \in DOMAIN got' : got'[n].nodata \in BOOLEAN,
         reply' = reply \/ reply'.code \in Codes \cup {-1, 200}, taken' = taken
  PROVE  TypeInv'
BY DEF TypeInv, TypeOK, ServiceRecords, Places

LEMMA TypeFetches ==
  ASSUME TypeInv, pc \in {"fetch", "rest"}, NEW n, NEW way, FetchTile(n, way), error' \in Codes,
         UNCHANGED <<frontend, file, loading, service, exceptions, pc, request, reply, counts>>
  PROVE  TypeInv'
<1> DEFINE f == Fetch(Now.wants[n], way)
<1>1. f.outcome.nodata \in BOOLEAN BY FetchTyped
<1> HIDE DEF f
<1>2. got' = [m \in DOMAIN got \cup {n} |-> IF m = n THEN f.outcome ELSE got[m]] BY Zenon DEF FetchTile, f
<1>3. \A m \in DOMAIN got : got[m].nodata \in BOOLEAN BY DEF TypeInv, TypeOK
<1>4. \A m \in DOMAIN got' : got'[m].nodata \in BOOLEAN BY <1>1, <1>2, <1>3
<1>5. service \in ServiceRecords /\ exceptions \in {"none", "live", "freed"} BY DEF TypeInv, TypeOK
<1> QED BY <1>4, <1>5, TypeMoved DEF loading, counts, Places

(* Whoever answers has understood the request.                             *)
Parsed ==
  pc \in Answering => /\ config # None /\ ~Failed(Now.parsed)
                      /\ Next1(Now.parsed.value) = IF pc = "rest" THEN "fetch" ELSE pc

LEMMA ParsedStart == Init => Parsed
BY DEF Init, Parsed, Answering

LEMMA ParsedStays == Parsed /\ KeptInv /\ [Next]_vars => Parsed'
<1> SUFFICES ASSUME Parsed, KeptInv, [Next]_vars PROVE Parsed' OBVIOUS
<1>1. CASE Fetches
  <2>1. UNCHANGED <<config, request, pc>> BY <1>1 DEF Fetches
  <2>2. Now' = Now BY <2>1 DEF Now
  <2> QED BY <2>1, <2>2 DEF Parsed
<1>2. CASE Empties
  <2> SUFFICES ASSUME pc' \in Answering
      PROVE  config' # None /\ ~Failed(Now'.parsed) /\ Next1(Now'.parsed.value) = IF pc' = "rest" THEN "fetch" ELSE pc'
    BY DEF Parsed
  <2>1. /\ pc' # "rest" /\ UNCHANGED <<config, request>> /\ config # None
        /\ ~Failed(Now.parsed) /\ pc' = Next1(Now.parsed.value)
    BY <1>2 DEF Empties
  <2>2. Now' = Now BY <2>1 DEF Now
  <2> QED BY <2>1, <2>2
<1>3. CASE Keeps
  <2>1. UNCHANGED <<config, request>> /\ (pc' \in Answering => pc' = pc \/ (pc = "fetch" /\ pc' = "rest"))
    BY <1>3 DEF Keeps
  <2>2. Now' = Now BY <2>1 DEF Now
  <2> QED BY <2>1, <2>2 DEF Parsed, Answering
<1> QED BY <1>1, <1>2, <1>3, HowItMoves

CodedTiles == pc \in {"fetch", "rest"} => \A n \in DOMAIN got : got[n].code \in Codes

LEMMA TilesCoded == KeptInv /\ CameInv => CodedTiles
<1> SUFFICES ASSUME KeptInv, CameInv, pc \in {"fetch", "rest"}, NEW n \in DOMAIN got PROVE got[n].code \in Codes
  BY DEF CodedTiles
<1>1. config \in DOMAIN Documents /\ Site[config] # {} /\ request \in DOMAIN Requests
  BY DEF KeptInv, Working, Requested, Documented
<1>2. n \in DOMAIN Tiles BY DEF KeptInv, Gotten, Tiles
<1> QED BY <1>1, <1>2, GotCoded

LEMMA SentTyped ==
  ASSUME TypeInv, NEW outcome, Coded(outcome), Sent(outcome), request \in DOMAIN Requests PROVE TypeInv'
<1>1. service \in ServiceRecords /\ exceptions \in {"none", "live", "freed"} /\ error \in Codes
      /\ \A n \in DOMAIN got : got[n].nodata \in BOOLEAN
  BY DEF TypeInv, TypeOK
<1>2. CASE Failed(outcome) /\ Refuse(outcome.code)
  BY <1>1, <1>2, TypeMoved DEF Refuse, Coded, world, loading, counts, Places
<1>3. CASE ~Failed(outcome) /\ reply' = Reply(200, outcome.value) /\ pc' = "cleanup"
           /\ UNCHANGED <<world, file, loading, service, exceptions, request, error, got, counts>>
  BY <1>1, <1>3, TypeMoved, CodeOfReply DEF world, loading, counts, Places
<1> QED BY <1>2, <1>3, Zenon DEF Sent

(* The answers to what was understood are told by codes.                   *)
LEMMA AnswersCoded ==
  ASSUME KeptInv, Parsed
  PROVE  /\ FetchedAll /\ Now.parsed.value.type = "GET_TILE" =>
              Coded(GetTileAnswer(Cfg(config), Now.parsed.value, got))
         /\ FetchedAll /\ Now.parsed.value.type = "GET_MAP" =>
              /\ ~NoFormat => Coded(AssembleAnswer(Now.parsed.value, got))
              /\ Coded(AssembleAnswer([Now.parsed.value EXCEPT !.format = CreatePng("PNG")], got))
         /\ pc \in Answering => \A said \in DOMAIN Now.says : Coded(Now.says[said])
<1> DEFINE parsed == Now.parsed.value
<1>1. pc \in Answering => config \in DOMAIN Documents /\ Site[config] # {} /\ request \in DOMAIN Requests
                          /\ ~Failed(Now.parsed)
  BY DEF KeptInv, Documented, Requested, Parsed, Answering
<1>2. pc \in Answering => /\ Writable(Cfg(config).default_format) /\ Understood(parsed)
                          /\ \A said \in DOMAIN Now.says : Now.says[said].code \in Codes
  BY <1>1, WhatIsHandled, Zenon DEF Now
<1>3. FetchedAll => pc \in Answering BY DEF FetchedAll, Answering
<1>4. ASSUME FetchedAll, parsed.type = "GET_TILE" PROVE Coded(GetTileAnswer(Cfg(config), parsed, got))
  <2>1. config \in DOMAIN Documents /\ Site[config] # {} /\ request \in DOMAIN Requests BY <1>1, <1>3, <1>4
  <2>2. parsed.format # None => Writable(parsed.format) BY <1>2, <1>3, <1>4 DEF Understood
  <2>3. DOMAIN got \subseteq DOMAIN Handled(config, request).wants BY DEF KeptInv, Gotten, Now
  <2>4. ASSUME NEW n \in DOMAIN got
        PROVE n \in Nat /\ (parsed.tiles[n].tileset.format # None => Writable(parsed.tiles[n].tileset.format))
    <3>1. n \in DOMAIN Handled(config, request).wants /\ n \in Nat BY <2>1, <2>3, WhatIsWanted
    <3>2. parsed = Handled(config, request).parsed.value BY DEF Now
    <3>3. Handled(config, request).wants[n].tile = parsed.tiles[n]
      BY <1>4, <2>1, <3>1, <3>2, WantsOfTile, Zenon
    <3>4. Sound(Cfg(config), Handled(config, request).wants[n].tile.tileset) BY <2>1, <3>1, WantedOf, Zenon
    <3> HIDE DEF parsed
    <3> QED BY <3>1, <3>3, <3>4 DEF Sound
  <2>5. Writable(Cfg(config).default_format) BY <1>2, <1>3, <1>4
  <2> HIDE DEF parsed
  <2> QED BY <2>2, <2>4, <2>5, TileAnswerCoded
<1>5. ASSUME FetchedAll, parsed.type = "GET_MAP", ~NoFormat PROVE Coded(AssembleAnswer(parsed, got))
  <2>1. Writable(parsed.format) BY <1>2, <1>3, <1>5 DEF Understood, NoFormat
  <2> QED BY <2>1, MapAnswerCoded
<1>6. ASSUME FetchedAll, parsed.type = "GET_MAP"
      PROVE  Coded(AssembleAnswer([parsed EXCEPT !.format = CreatePng("PNG")], got))
  <2> DEFINE other == [parsed EXCEPT !.format = CreatePng("PNG")]
  <2>1. "format" \in DOMAIN parsed BY <1>2, <1>3, <1>6 DEF Understood
  <2> HIDE DEF parsed
  <2>2. other.format = CreatePng("PNG") BY <2>1
  <2>3. Writable(CreatePng("PNG")) BY DEF Writable, CreatePng, Format, Pictures
  <2> HIDE DEF other
  <2>4. Coded(AssembleAnswer(other, got)) BY <2>2, <2>3, MapAnswerCoded
  <2> QED BY <2>4 DEF other
<1>7. pc \in Answering => \A said \in DOMAIN Now.says : Coded(Now.says[said]) BY <1>2 DEF Coded
<1> QED BY <1>4, <1>5, <1>6, <1>7

LEMMA TypeStays == TypeInv /\ Parsed /\ KeptInv /\ CodedTiles /\ CodedTiles' /\ [Next]_vars => TypeInv'
<1> SUFFICES ASSUME TypeInv, Parsed, KeptInv, CodedTiles, CodedTiles', [Next]_vars PROVE TypeInv' OBVIOUS
<1>1. MaxEdits \in Nat /\ MaxRequests \in Nat BY ServerAssumption
<1>2. service \in ServiceRecords /\ exceptions \in {"none", "live", "freed"} /\ error \in Codes
      /\ \A n \in DOMAIN got : got[n].nodata \in BOOLEAN
  BY DEF TypeInv, TypeOK
<1>3. {0, 400, 500} \subseteq Codes /\ DOMAIN << >> = {} BY DEF Codes
<1>4. \A code : Bare(code).code = code BY ReplyCoded
<1>5. CASE UNCHANGED vars BY <1>5 DEF vars, TypeInv, TypeOK
<1>6. ASSUME NEW d \in DOMAIN Documents \cup {None}, Edit(d) PROVE TypeInv'
  BY <1>1, <1>6 DEF Edit, world, TypeInv, TypeOK
<1>7. ASSUME NEW r \in DOMAIN Requests, Accept(r) PROVE TypeInv'
  <2>1. /\ service' \in {NoService, service} /\ pc' \in {"astray", "load", "dispatch"} /\ reply' = Bare(0) /\ got' = << >>
        /\ request' = r /\ taken' = taken + 1 /\ taken < MaxRequests
        /\ UNCHANGED <<frontend, file, mtime, config, memory, born, lost, exceptions, error, edits>>
    BY <1>7, Zenon DEF Accept, world, loading, NoReply
  <2>2. NoService \in ServiceRecords BY DEF NoService, ServiceRecords
  <2>3. service' \in ServiceRecords BY <1>2, <2>1, <2>2
  <2>4. reply'.code = 0 BY <1>4, <2>1
  <2>5. DOMAIN got' = {} BY <1>3, <2>1
  <2> QED BY <1>1, <1>3, <2>1, <2>3, <2>4, <2>5 DEF TypeInv, TypeOK, ServiceRecords
<1>8. CASE Astray
  <2>1. reply' \in {Bare(0), Bare(-1)} /\ pc' \in {"dead", "cleanup"}
        /\ UNCHANGED <<world, file, loading, service, exceptions, request, error, got, counts>>
    BY <1>8, Zenon DEF Astray, NoReply, Undefined
  <2>2. reply'.code \in {0, -1} BY <1>4, <2>1
  <2>3. pc' \in Places BY <2>1 DEF Places
  <2> QED BY <1>2, <1>3, <2>1, <2>2, <2>3, TypeMoved DEF world, loading, counts
<1>9. CASE OpenFails BY <1>3, <1>9 DEF OpenFails, world, counts, TypeInv, TypeOK
<1>10. CASE Stat BY <1>1, <1>10 DEF Stat, world, counts, TypeInv, TypeOK
<1>11. CASE Read
  <2>1. service' = [service EXCEPT !.freed = service.kind # None] BY <1>11 DEF Read
  <2>2. service' \in ServiceRecords BY <1>2, <2>1 DEF ServiceRecords
  <2> QED BY <1>11, <2>2 DEF Read, world, counts, FirstDocument, Loads, TypeInv, TypeOK, ServiceRecords
<1>12. CASE ReadKeepsOld BY <1>12 DEF ReadKeepsOld, world, loading, counts, TypeInv, TypeOK
<1>13. CASE FirstReadFails
  BY <1>3, <1>13 DEF FirstReadFails, world, counts, FirstDocument, TypeInv, TypeOK
<1>14. CASE DispatchRequest
  <2>1. /\ pc = "dispatch" /\ error' = Now.parsed.code
        /\ service' \in {service, NoService, [kind |-> Now.service, freed |-> FALSE]}
        /\ exceptions' \in {exceptions, "live"}
        /\ pc' \in {"refuse", "dead"} \/ (~Failed(Now.parsed) /\ pc' = Next1(Now.parsed.value))
        /\ UNCHANGED <<world, file, loading, request, got, reply, counts>>
    BY <1>14, Zenon DEF DispatchRequest
  <2>2. config \in DOMAIN Documents /\ Site[config] # {} /\ request \in DOMAIN Requests
    BY <2>1 DEF KeptInv, Documented, Working, Requested
  <2>3. /\ Now.service \in ServiceNames \cup {None, "forgotten"} /\ Now.parsed.code \in Codes
        /\ ~Failed(Now.parsed) => Understood(Now.parsed.value)
    BY <2>2, WhatIsHandled, Zenon DEF Now
  <2>4. service' \in ServiceRecords
    <3>1. \/ service' = service \/ service' = NoService
          \/ Now.service # None /\ Now.service # "forgotten" /\ service' = [kind |-> Now.service, freed |-> FALSE]
      <4> DEFINE asked == Now.service
      <4>1. service' = CASE asked = None -> service
                         [] asked = "forgotten" -> NoService
                         [] OTHER -> [kind |-> asked, freed |-> FALSE]
        BY <1>14, Zenon DEF DispatchRequest
      <4> HIDE DEF asked
      <4>2. \/ service' = service \/ service' = NoService
            \/ asked # None /\ asked # "forgotten" /\ service' = [kind |-> asked, freed |-> FALSE]
        BY <4>1
      <4> QED BY <4>2, Zenon DEF asked
    <3>2. NoService \in ServiceRecords BY DEF NoService, ServiceRecords
    <3>3. Now.service # None /\ Now.service # "forgotten" => [kind |-> Now.service, freed |-> FALSE] \in ServiceRecords
      BY <2>3 DEF ServiceRecords
    <3> QED BY <1>2, <3>1, <3>2, <3>3
  <2>5. Understood(Now.parsed.value) => Next1(Now.parsed.value) \in Places
    BY DEF Understood, RequestTypes, Next1, Places
  <2>6. pc' \in Places BY <2>1, <2>3, <2>5 DEF Places
  <2> QED BY <1>2, <2>1, <2>3, <2>4, <2>6, TypeMoved DEF world, loading, counts
<1>15. ASSUME NEW n, NEW way, FetchTile(n, way), pc \in {"fetch", "rest"}, error' = got'[n].code,
              UNCHANGED <<frontend, file, loading, service, exceptions, pc, request, reply, counts>>
       PROVE  TypeInv'
  <2>1. n \in DOMAIN got'
    <3> DEFINE f == Fetch(Now.wants[n], way)
    <3> HIDE DEF f
    <3>1. got' = [m \in DOMAIN got \cup {n} |-> IF m = n THEN f.outcome ELSE got[m]]
      BY <1>15, Zenon DEF FetchTile, f
    <3> QED BY <3>1
  <2>2. error' \in Codes BY <1>15, <2>1 DEF CodedTiles
  <2> QED BY <1>15, <2>2, TypeFetches
<1>16. ASSUME NEW way \in Ways, FetchNext(way) PROVE TypeInv'
  <2> DEFINE n == Cardinality(DOMAIN got) + 1
  <2>1. pc = "fetch" /\ FetchTile(n, way) /\ error' = got'[n].code
        /\ UNCHANGED <<frontend, file, loading, service, exceptions, pc, request, reply, counts>>
    BY <1>16, Zenon DEF FetchNext, Fetching
  <2> HIDE DEF n
  <2> QED BY <1>15, <2>1
<1>17. ASSUME NEW way \in Ways, FetchRest(way) PROVE TypeInv'
  <2> DEFINE n == Lowest(Rest)
  <2>1. pc = "rest" /\ FetchTile(n, way) /\ error' = got'[n].code
        /\ UNCHANGED <<frontend, file, loading, service, exceptions, pc, request, reply, counts>>
    BY <1>17, Zenon DEF FetchRest
  <2> HIDE DEF n
  <2> QED BY <1>15, <2>1
<1>18. ASSUME NEW n \in DOMAIN Tiles, NEW way \in Ways, FetchInThread(n, way) PROVE TypeInv'
  <2>1. pc = "fetch" /\ FetchTile(n, way) /\ error' = error
        /\ UNCHANGED <<frontend, file, loading, service, exceptions, pc, request, reply, counts>>
    BY <1>18, Zenon DEF FetchInThread, Fetching
  <2> QED BY <1>2, <2>1, TypeFetches
<1>19. CASE JoinThreads
  <2> DEFINE bad == {n \in Launched(Tiles) : Failed(got[n])}
  <2>1. /\ pc = "fetch" /\ Launched(Tiles) \subseteq DOMAIN got /\ pc' = "rest"
        /\ error' = IF bad = {} THEN 0 ELSE got[Lowest(bad)].code
        /\ UNCHANGED <<world, file, loading, service, exceptions, request, got, reply, counts>>
    BY <1>19, Zenon DEF JoinThreads, Fetching
  <2>2. DOMAIN Tiles \subseteq Nat
    <3>1. config \in DOMAIN Documents /\ Site[config] # {} /\ request \in DOMAIN Requests
      BY <2>1 DEF KeptInv, Documented, Working, Requested
    <3> QED BY <3>1, WhatIsWanted DEF Tiles, Now
  <2>3. bad # {} => Lowest(bad) \in bad BY <2>2, LowestNatural DEF Launched
  <2>4. error' \in Codes BY <1>3, <2>1, <2>3 DEF CodedTiles
  <2> HIDE DEF bad
  <2> QED BY <1>2, <2>1, <2>4, TypeMoved DEF world, loading, counts, Places
<1>20. ASSUME NEW outcome, Coded(outcome), Sent(outcome), pc # "idle" PROVE TypeInv'
  BY <1>20, SentTyped DEF KeptInv, Requested
<1>21. ASSUME Die PROVE TypeInv'
  BY <1>2, <1>21, TypeMoved DEF Die, world, loading, counts, Places
<1>22. FetchedAll => pc # "idle" BY DEF FetchedAll
<1>23. CASE SendTile
  <2>1. FetchedAll /\ Now.parsed.value.type = "GET_TILE" /\ Sent(GetTileAnswer(Cfg(config), Now.parsed.value, got))
    BY <1>23, Zenon DEF SendTile
  <2> QED BY <1>20, <1>22, <2>1, AnswersCoded, Zenon
<1>24. CASE SendMap
  <2>1. FetchedAll /\ Now.parsed.value.type = "GET_MAP" /\ ~NoFormat /\ Sent(AssembleAnswer(Now.parsed.value, got))
    BY <1>24, Zenon DEF SendMap
  <2> QED BY <1>20, <1>22, <2>1, AnswersCoded, Zenon
<1>25. CASE MapWithoutFormat
  <2> DEFINE outcome == AssembleAnswer([Now.parsed.value EXCEPT !.format = CreatePng("PNG")], got)
  <2>1. FetchedAll /\ Now.parsed.value.type = "GET_MAP" /\ IF Failed(outcome) THEN Refuse(outcome.code) ELSE Die
    BY <1>25, Zenon DEF MapWithoutFormat
  <2>2. Coded(outcome) BY <2>1, AnswersCoded, Zenon
  <2> HIDE DEF outcome
  <2>3. Sent(outcome) \/ Die BY <2>1, Zenon DEF Sent
  <2> QED BY <1>20, <1>21, <1>22, <2>1, <2>2, <2>3, Zenon
<1>26. CASE \E said \in DOMAIN Now.says : ForwardMap(said) \/ SendPage(said) \/ SendInfo(said) \/ SendProxied(said)
  <2>1. PICK said \in DOMAIN Now.says : ForwardMap(said) \/ SendPage(said) \/ SendInfo(said) \/ SendProxied(said)
    BY <1>26
  <2>2. pc \in {"forward", "page", "info", "proxy"} /\ (Sent(Bad(400)) \/ Sent(Now.says[said]))
    BY <2>1, Zenon DEF ForwardMap, SendPage, SendInfo, SendProxied
  <2>3. Coded(Now.says[said]) /\ Coded(Bad(400)) BY <2>2, AnswersCoded, RefusalsCoded DEF Answering
  <2>4. pc # "idle" BY <2>2
  <2> QED BY <1>20, <2>2, <2>3, <2>4, Zenon
<1>27. CASE NothingToSend BY <1>21, <1>27 DEF NothingToSend
<1>28. CASE RespondToError
  <2>1. /\ pc' \in {"cleanup", "dead"} /\ reply' \in {reply, Bare(error), Complaint}
        /\ UNCHANGED <<world, file, loading, service, exceptions, request, error, got, counts>>
    BY <1>28, Zenon DEF RespondToError
  <2>2. Complaint.code = error BY CodeOfReply, ReplyCoded DEF Complaint
  <2>3. reply' = reply \/ reply'.code \in Codes \cup {-1, 200} BY <1>2, <1>4, <2>1, <2>2
  <2>4. pc' \in Places BY <2>1 DEF Places
  <2> QED BY <1>2, <2>1, <2>3, <2>4, TypeMoved DEF world, loading, counts
<1>29. CASE Cleanup
  <2>1. /\ pc' \in {"idle", "dead"} /\ error' = 0 /\ got' = << >> /\ exceptions' \in {"none", "freed"}
        /\ UNCHANGED <<world, file, loading, service, request, reply, counts>>
    BY <1>29, Zenon DEF Cleanup
  <2>2. pc' \in Places BY <2>1 DEF Places
  <2> QED BY <1>2, <1>3, <2>1, <2>2, TypeMoved DEF world, loading, counts
<1>30. CASE Respawn \/ Recycle
  <2>1. NoService \in ServiceRecords BY DEF NoService, ServiceRecords
  <2>2. /\ pc' = "idle" /\ service' = NoService /\ exceptions' = "none" /\ error' = 0 /\ got' = << >>
        /\ lost' = (file.doc = None)
        /\ UNCHANGED <<frontend, file, request, reply, taken, edits>>
    BY <1>30, Zenon DEF Respawn, Recycle, Fresh, world, counts
  <2>3. (config' = None /\ memory' = "none" /\ born' = None /\ mtime' = 0) \/ UNCHANGED <<config, memory, born, mtime>>
    BY <1>30, Zenon DEF Respawn, Recycle, Forgotten
  <2>4. lost' \in BOOLEAN BY <2>2
  <2>5. service' \in ServiceRecords BY <2>1, <2>2
  <2>6. DOMAIN got' = {} BY <1>3, <2>2
  <2> QED BY <1>1, <1>3, <2>2, <2>3, <2>4, <2>5, <2>6 DEF TypeInv, TypeOK, ServiceRecords
<1>31. CASE Finished BY <1>5, <1>31 DEF Finished
<1> QED
  BY <1>5, <1>6, <1>7, <1>8, <1>9, <1>10, <1>11, <1>12, <1>13, <1>14, <1>16, <1>17, <1>18, <1>19, <1>23, <1>24, <1>25,
     <1>26, <1>27, <1>28, <1>29, <1>30, <1>31 DEF Next, Serve

(* Whatever documents the file gets, whatever is asked and whatever the    *)
(* sources say: the process is where the handlers may be, and tells no     *)
(* code but those of the library, 200, or memory that is not its own.      *)
THEOREM TypeCorrect == Spec => []TypeOK
<1>1. TypeInv => TypeOK BY DEF TypeInv
<1>2. Spec => []HarmInv BY HarmStart, HarmStays, PTL DEF Spec
<1>3. Spec => []KeptInv BY KeptStart, KeptStays, <1>2, PTL DEF Spec
<1>4. Spec => []CameInv BY CameStart, CameStays, <1>3, PTL DEF Spec
<1>5. Spec => []Parsed BY ParsedStart, ParsedStays, <1>3, PTL DEF Spec
<1>6. Spec => []CodedTiles BY TilesCoded, <1>3, <1>4, PTL
<1> QED BY TypeStart, TypeStays, <1>1, <1>3, <1>5, <1>6, PTL DEF Spec

-----------------------------------------------------------------------------
(* What the bodies of answers are, and the types of content that are told.  *)

Tells(mime, data) == data.type \in DOMAIN MimeOfType => mime = MimeOfType[data.type]

LEMMA MimesOfTypes ==
  /\ DOMAIN MimeOfType = {"PNG", "JPEG", "RAW"}
  /\ MimeOfType["PNG"] = "image/png" /\ MimeOfType["JPEG"] = "image/jpeg"
BY DEF MimeOfType

LEMMA SniffedTells == ASSUME NEW data, data.type # "RAW" PROVE Tells(SniffedMime(data), data)
<1>1. CASE data.type = "PNG"
  <2>1. SniffedMime(data) = "image/png" BY <1>1 DEF SniffedMime, HeaderSniff
  <2> QED BY <1>1, <2>1, MimesOfTypes DEF Tells
<1>2. CASE data.type = "JPEG"
  <2>1. SniffedMime(data) = "image/jpeg" BY <1>2 DEF SniffedMime, HeaderSniff
  <2> QED BY <1>2, <2>1, MimesOfTypes DEF Tells
<1>3. CASE data.type \notin {"PNG", "JPEG", "RAW"} BY <1>3, MimesOfTypes DEF Tells
<1> QED BY <1>1, <1>2, <1>3

LEMMA ContentTells ==
  ASSUME NEW format, NEW data, NEW types, data.type \in types,
         format = None => data.type # "RAW", format # None => Told(format, types)
  PROVE  Tells(ContentType(format, data), data)
<1>1. CASE format # None /\ format.mime_type # "none"
  <2>1. ContentType(format, data) = format.mime_type BY <1>1 DEF ContentType
  <2>2. data.type \in DOMAIN MimeOfType => format.mime_type = MimeOfType[data.type] BY <1>1 DEF Told
  <2> QED BY <2>1, <2>2 DEF Tells
<1>2. CASE format = None \/ format.mime_type = "none"
  <2>1. ContentType(format, data) = SniffedMime(data) BY <1>2 DEF ContentType
  <2>2. data.type # "RAW" BY <1>2, MimesOfTypes DEF Told
  <2> QED BY <2>1, <2>2, SniffedTells
<1> QED BY <1>1, <1>2

(* What a format writes is of its types.                                   *)
LEMMA WrittenTypes ==
  ASSUME NEW format, NEW image, Writable(format), ~Failed(Write(format, image))
  PROVE  Write(format, image).value.type \in Written(format)
<1> DEFINE type == MixedMember(format, image).type
<1>1. type \in Pictures BY SMT DEF Writable, MixedMember, Pictures
<1>2. type \in Written(format) BY SMT DEF MixedMember, Written
<1>3. Write(format, image) = CASE type = "PNG" -> PngEncode(image)
                               [] type = "JPEG" -> JpegEncode(image)
                               [] type = "RAW" -> RawEncode(image)
                               [] type = "JSON" -> JsonEncode(image)
  BY Zenon DEF Write
<1>4. Failed(Bad(500)) BY BadFails
<1>5. PngEncode(image).value.type = "PNG" /\ JpegEncode(image).value.type = "JPEG"
  BY EncodedType, Zenon DEF PngEncode, JpegEncode
<1>6. ~Failed(RawEncode(image)) => RawEncode(image).value.type = "RAW"
  BY <1>4, EncodedType, Zenon DEF RawEncode
<1>7. ~Failed(JsonEncode(image)) => JsonEncode(image).value.type = "JSON"
  BY <1>4, EncodedType, Zenon DEF JsonEncode
<1> HIDE DEF type
<1>8. Write(format, image).value.type = type BY <1>1, <1>3, <1>5, <1>6, <1>7 DEF Pictures
<1> QED BY <1>2, <1>8

LEMMA WrittenTells ==
  ASSUME NEW format, NEW image, Writable(format), Told(format, Written(format)), ~Failed(Write(format, image)),
         format # None
  PROVE  Tells(ContentType(format, Write(format, image).value), Write(format, image).value)
<1> DEFINE data == Write(format, image).value
<1>1. data.type \in Written(format) BY WrittenTypes
<1> HIDE DEF data
<1>2. Tells(ContentType(format, data), data) BY <1>1, ContentTells
<1> QED BY <1>2 DEF data

(* What a source sends is PNG, where it is a picture at all.               *)
Sends(outcome) == Failed(outcome) \/ TheOne(outcome.value.encoded_data).type = "PNG"

LEMMA PngReceived ==
  ASSUME NEW answer \in BackendAnswers, NEW picture PROVE
    LET received == AsPicture(DoRequest(answer, picture))
    IN  Failed(received) \/ received = Good(Received(Encoded("PNG", picture)))
<1> DEFINE said == DoRequest(answer, picture)
<1>1. said \in {Good(Encoded("PNG", picture)), Good(Encoded("text", picture)), Bad(502)}
  BY Zenon DEF BackendAnswers, DoRequest
<1>2. Failed(Bad(502)) BY BadFails
<1>3. ~IsValidFormat(Encoded("text", picture)) BY DEF IsValidFormat, HeaderSniff, Encoded
<1>4. AsPicture(said) = IF Failed(said) THEN said
                        ELSE IF ~IsValidFormat(said.value) THEN Bad(502) ELSE Good(Received(said.value))
  BY Zenon DEF AsPicture
<1>5. \A v : Good(v).value = v BY DEF Good
<1> HIDE DEF said
<1>6. Failed(AsPicture(said)) \/ AsPicture(said) = Good(Received(Encoded("PNG", picture)))
  BY <1>1, <1>2, <1>3, <1>4, <1>5, Zenon
<1> QED BY <1>6 DEF said

LEMMA PngIsSent == ASSUME NEW picture, NEW outcome, outcome = Good(Received(Encoded("PNG", picture))) PROVE Sends(outcome)
<1>1. outcome.value.encoded_data = {Encoded("PNG", picture)} BY DEF Good, Received
<1>2. TheOne(outcome.value.encoded_data) = Encoded("PNG", picture) BY <1>1 DEF TheOne
<1> QED BY <1>2 DEF Sends, Encoded

LEMMA WmsSends == ASSUME NEW source, NEW map, NEW answer \in BackendAnswers PROVE Sends(WmsRender(source, map, answer))
<1> DEFINE picture == PictureOf(<<LayersOf(source, map), Dims(map)>>, map.extent, map.w, map.h)
<1> HIDE DEF picture
<1>1. WmsRender(source, map, answer) = AsPicture(DoRequest(answer, picture)) BY Zenon DEF WmsRender, picture
<1> QED BY <1>1, PngReceived, PngIsSent, Zenon DEF Sends

LEMMA TmsSends == ASSUME NEW source, NEW map, NEW answer \in BackendAnswers PROVE Sends(TmsRender(source, map, answer))
<1> DEFINE picture == TmsTile(source, map.grid_link.grid, TileCoords(map, source.flipy))
           received == AsPicture(DoRequest(answer, picture))
           raster == TheOne(received.value.encoded_data).image
           also == Good([received.value EXCEPT !.raw_image = {Raster(raster.w, raster.h, raster.px)}])
<1>1. TmsRender(source, map, answer) \in {received, Bad(500)} \/
      (~Failed(received) /\ TmsRender(source, map, answer) = also)
  BY Zenon DEF TmsRender
<1> HIDE DEF picture
<1>2. Failed(received) \/ received = Good(Received(Encoded("PNG", picture))) BY PngReceived
<1>3. Failed(Bad(500)) BY BadFails
<1> HIDE DEF received, raster
<1>4. ~Failed(received) => Sends(also)
  <2> SUFFICES ASSUME received = Good(Received(Encoded("PNG", picture))) PROVE Sends(also) BY <1>2
  <2>1. received.value = Received(Encoded("PNG", picture)) BY DEF Good
  <2>2. also.value.encoded_data = {Encoded("PNG", picture)} BY <2>1 DEF Good, Received
  <2> HIDE DEF also
  <2>3. TheOne(also.value.encoded_data) = Encoded("PNG", picture) BY <2>2 DEF TheOne
  <2> QED BY <2>3 DEF Sends, Encoded
<1>5. Sends(received) BY <1>2, PngIsSent, Zenon DEF Sends
<1>6. Sends(Bad(500)) BY <1>3 DEF Sends
<1> QED BY <1>1, <1>4, <1>5, <1>6, Zenon
(* The types of what is made of a metatile.                                *)
LEMMA RenderedOfTypes ==
  ASSUME NEW cfg, NEW t, NEW m, NEW answer \in BackendAnswers, Sound(cfg, t.tileset), t.tileset.source # None,
         ~Failed(RenderMetatile(cfg, t, m, answer)), NEW p \in DOMAIN RenderMetatile(cfg, t, m, answer).value
  PROVE  RenderMetatile(cfg, t, m, answer).value[p].type \in KeptTypes(cfg, t.tileset)
<1> DEFINE ts == t.tileset
           g == t.grid_link.grid
           drawn == RenderMap(cfg, MapOf(t, m), answer)
           whole == IF drawn.value.raw_image # {} THEN Good(TheOne(drawn.value.raw_image))
                    ELSE Decode(TheOne(drawn.value.encoded_data))
           mark == IF ts.watermark = None THEN {} ELSE {Filled(g.tile_sx, g.tile_sy, ts.watermark)}
           views == Split(g, whole.value, MetaSize(g, m, ts.metasize), ts.metabuffer, mark)
           tiles == [q \in DOMAIN views |-> IF Failed(views[q]) THEN views[q] ELSE WrittenAs(cfg, ts, views[q].value)]
           bad == {q \in DOMAIN tiles : Failed(tiles[q])}
           sent == [q \in MetaTiles(g, m, ts.metasize) |-> TheOne(drawn.value.encoded_data)]
           made == RenderMetatile(cfg, t, m, answer)
           values == [q \in DOMAIN tiles |-> tiles[q].value]
<1>1. made = IF Failed(drawn) THEN drawn
             ELSE IF ts.format = None THEN Good(sent)
             ELSE IF Failed(whole) THEN whole
             ELSE IF bad # {} THEN Bad(500)
             ELSE Good(values)
  BY Zenon DEF RenderMetatile
<1>2. ~Failed(made) /\ Failed(Bad(500)) /\ p \in DOMAIN made.value BY BadFails
<1>3. CASE ts.format = None
  <2>1. cfg.sources[ts.source].type \in {"wms", "tms"} BY <1>3 DEF Sound
  <2>2. MapOf(t, m).tileset = ts BY DEF MapOf, Map
  <2>3. drawn = WmsRender(cfg.sources[ts.source], MapOf(t, m), answer)
        \/ drawn = TmsRender(cfg.sources[ts.source], MapOf(t, m), answer)
    BY <2>1, <2>2 DEF RenderMap
  <2>4. Sends(drawn) BY <2>3, WmsSends, TmsSends, Zenon
  <2> HIDE DEF drawn, made, whole, bad, tiles, values
  <2>5. ~Failed(drawn) BY <1>1, <1>2, Zenon
  <2>6. made = Good(sent) BY <1>1, <1>3, <2>5, Zenon
  <2>7. TheOne(drawn.value.encoded_data).type = "PNG" BY <2>4, <2>5 DEF Sends
  <2>8. \A q \in DOMAIN sent : sent[q].type = "PNG" BY <2>7
  <2>9. "PNG" \in KeptTypes(cfg, ts) BY <1>3 DEF KeptTypes
  <2> HIDE DEF sent, ts
  <2>10. made.value = sent BY <2>6 DEF Good
  <2>11. made.value[p].type \in KeptTypes(cfg, ts) BY <1>2, <2>8, <2>9, <2>10
  <2> QED BY <2>11 DEF made, ts
<1>4. CASE ts.format # None
  <2>1. Writable(ts.format) BY <1>4 DEF Sound
  <2>2. \A q \in DOMAIN tiles : Failed(tiles[q]) \/ tiles[q].value.type \in KeptTypes(cfg, ts)
    <3> HIDE DEF views
    <3> SUFFICES ASSUME NEW q \in DOMAIN views, ~Failed(tiles[q]) PROVE tiles[q].value.type \in KeptTypes(cfg, ts)
      OBVIOUS
    <3> DEFINE image == views[q].value
    <3>1. tiles[q] = WrittenAs(cfg, ts, image)
      <4>1. Failed(views[q]) => tiles[q] = views[q] OBVIOUS
      <4>2. ~Failed(views[q]) => tiles[q] = WrittenAs(cfg, ts, views[q].value) OBVIOUS
      <4>3. ~Failed(tiles[q]) OBVIOUS
      <4> HIDE DEF tiles
      <4> QED BY <4>1, <4>2, <4>3
    <3>2. CASE cfg.caches[ts.cache].type = "tiff"
      <4>1. WrittenAs(cfg, ts, image) = JpegEncode(image) BY <3>2, Zenon DEF WrittenAs
      <4>2. JpegEncode(image).value.type = "JPEG" BY EncodedType, Zenon DEF JpegEncode
      <4>3. "JPEG" \in KeptTypes(cfg, ts) BY <1>4, <3>2 DEF KeptTypes
      <4> HIDE DEF tiles, image, ts
      <4> QED BY <3>1, <4>1, <4>2, <4>3
    <3>3. CASE cfg.caches[ts.cache].type # "tiff"
      <4>1. WrittenAs(cfg, ts, image) = Write(ts.format, image) BY <3>3, Zenon DEF WrittenAs
      <4>2. KeptTypes(cfg, ts) = Written(ts.format) BY <1>4, <3>3 DEF KeptTypes
      <4>3. ~Failed(tiles[q]) OBVIOUS
      <4> HIDE DEF tiles, image, ts
      <4> QED BY <2>1, <3>1, <4>1, <4>2, <4>3, WrittenTypes
    <3> QED BY <3>2, <3>3
  <2> HIDE DEF drawn, made, whole, tiles
  <2>3. bad = {} /\ made = Good(values) BY <1>1, <1>2, <1>4, Zenon
  <2>4. \A q \in DOMAIN values : values[q].type \in KeptTypes(cfg, ts) BY <2>2, <2>3
  <2> HIDE DEF values
  <2>5. made.value = values BY <2>3 DEF Good
  <2> QED BY <1>2, <2>4, <2>5 DEF made
<1> QED BY <1>3, <1>4

(* What was got of a tile is nothing, or what was made for its place in    *)
(* its metatile, for this or another document.                             *)
FromBlock(n, d, u, a, p) ==
  LET made == RenderMetatile(Cfg(d), u, BlockOf(u), a)
  IN  /\ Works(d, u, a) /\ ~Failed(made) /\ p \in MetaTiles(u.grid_link.grid, BlockOf(u), u.tileset.metasize)
      /\ p \in DOMAIN made.value /\ got[n].data = made.value[p]
      /\ SameTile(TileOfBlock(u, p), Tiles[n])
      /\ Cfg(d).caches[u.tileset.cache] = Cfg(config).caches[u.tileset.cache]
      /\ Cfg(d).sources[u.tileset.source] = Cfg(config).sources[u.tileset.source]

LEMMA GotFrom ==
  ASSUME KeysApart(Documents), KeptInv, CameInv, pc \in {"fetch", "rest"}, NEW n \in DOMAIN got
  PROVE  got[n].data = NoData \/ \E d, u, a, p : FromBlock(n, d, u, a, p)
<1>1. config \in DOMAIN Documents /\ Site[config] # {} /\ request \in DOMAIN Requests
  BY DEF KeptInv, Working, Requested, Documented
<1>2. n \in DOMAIN Handled(config, request).wants /\ Tiles[n] = Handled(config, request).wants[n].tile
  BY DEF KeptInv, Gotten, Tiles, Now
<1>3. config \in Loaded(Documents) /\ Tiles[n] \in TilesWanted(config) /\ OnItsGrid(Tiles[n])
  BY <1>1, <1>2, WantedOf, Zenon
<1>4. Came(n) BY DEF CameInv
<1>5. CASE Hit(n)
  <2> DEFINE key == CacheKey(Cfg(config), Tiles[n])
  <2>1. PICK d, u, a : Works(d, u, a) /\ key \in DOMAIN Made(d, u, a) /\ got[n].data = Made(d, u, a)[key]
    BY <1>5, Zenon DEF Hit
  <2> DEFINE made == RenderMetatile(Cfg(d), u, BlockOf(u), a)
             places == MetaTiles(u.grid_link.grid, BlockOf(u), u.tileset.metasize)
             work == Work(Cfg(d), u, a)
  <2>2. d \in DOMAIN Documents /\ Site[d] # {} /\ u \in TilesWanted(d) /\ u.tileset.source # None
        /\ d \in Loaded(Documents)
    BY <2>1 DEF Works, Loaded
  <2>3. OnItsGrid(u)
    <3>1. PICK r \in DOMAIN Requests : \E k \in DOMAIN Handled(d, r).wants : u = Handled(d, r).wants[k].tile
      BY <2>2 DEF TilesWanted
    <3> QED BY <2>2, <3>1, WantedOf, Zenon
  <2>4. /\ Failed(made) => work.stores = << >>
        /\ ~Failed(made) =>
             /\ DOMAIN made.value = places
             /\ \A k \in DOMAIN work.stores :
                  \E p \in places : k = CacheKey(Cfg(d), TileOfBlock(u, p)) /\ work.stores[k] = made.value[p]
    BY WorkLeavesAll
  <2>5. work.stores = Made(d, u, a) BY DEF Made
  <2> HIDE DEF made, places, work, key
  <2>6. DOMAIN << >> = {} OBVIOUS
  <2>7. ~Failed(made) BY <2>1, <2>4, <2>5, <2>6
  <2>8. PICK p \in places : key = CacheKey(Cfg(d), TileOfBlock(u, p)) /\ work.stores[key] = made.value[p]
    BY <2>1, <2>4, <2>5, <2>7, Zenon
  <2>9. TileOfBlock(u, p) \in BlockTiles(u) BY <2>8 DEF places, BlockTiles
  <2> DEFINE v == TileOfBlock(u, p)
  <2>10. v.tileset = u.tileset BY <2>3, FieldsOfBlock
  <2>11. /\ SameTile(v, Tiles[n])
         /\ Cfg(d).caches[v.tileset.cache] = Cfg(config).caches[v.tileset.cache]
         /\ Cfg(d).sources[v.tileset.source] = Cfg(config).sources[v.tileset.source]
    BY <1>3, <2>2, <2>8, <2>9, Zenon DEF KeysApart, key
  <2> HIDE DEF v
  <2>12. got[n].data = made.value[p] BY <2>1, <2>5, <2>8
  <2>13. FromBlock(n, d, u, a, p)
    BY <2>1, <2>4, <2>7, <2>8, <2>10, <2>11, <2>12 DEF FromBlock, made, places, v
  <2> QED BY <2>13
<1>6. CASE Nowhere(n) BY <1>6 DEF Nowhere
<1>7. CASE Waited(n) BY <1>7 DEF Waited
<1>8. CASE Unfetched(n) BY <1>8 DEF Unfetched
<1>9. CASE Rendered(n)
  <2> DEFINE u == Tiles[n]
  <2>1. PICK a : Works(config, u, a) /\ ~Failed(Work(Cfg(config), u, a)) /\ got[n].data = Work(Cfg(config), u, a).alone
    BY <1>9, Zenon DEF Rendered
  <2> DEFINE made == RenderMetatile(Cfg(config), u, BlockOf(u), a)
             places == MetaTiles(u.grid_link.grid, BlockOf(u), u.tileset.metasize)
             work == Work(Cfg(config), u, a)
             only == [i |-> 0, j |-> 0]
  <2>2. /\ Failed(made) => work.alone = NoData
        /\ ~Failed(made) =>
             /\ DOMAIN made.value = places
             /\ work.alone = NoData \/ (places = {only} /\ work.alone = made.value[only])
    BY WorkLeavesAll
  <2>3. PICK p \in places : SameTile(TileOfBlock(u, p), u) BY <1>3, BlockHoldsTile
  <2>4. CASE work.alone = NoData BY <2>1, <2>4
  <2>5. CASE work.alone # NoData
    <3> HIDE DEF made, places, work, u
    <3>1. ~Failed(made) /\ DOMAIN made.value = places /\ places = {only} /\ work.alone = made.value[only]
      BY <2>2, <2>5
    <3>2. p = only BY <2>3, <3>1
    <3>3. FromBlock(n, config, u, a, p)
      BY <2>1, <2>3, <3>1, <3>2 DEF FromBlock, made, places, work, u
    <3> QED BY <3>3
  <2> QED BY <2>4, <2>5
<1> QED BY <1>4, <1>5, <1>6, <1>7, <1>8, <1>9 DEF Came
(* The answer for a tile tells what it is.                                 *)
LEMMA TileAnswerTells ==
  ASSUME NEW cfg, NEW parsed, NEW tiles, DOMAIN tiles \subseteq Nat,
         cfg.default_format # None, Writable(cfg.default_format), Told(cfg.default_format, Written(cfg.default_format)),
         parsed.format # None => Writable(parsed.format) /\ Told(parsed.format, Written(parsed.format)),
         \A n \in DOMAIN tiles :
           LET own == parsed.tiles[n].tileset.format
           IN  /\ own # None => Writable(own) /\ Told(own, Written(own))
               /\ Tells(ContentType(own, tiles[n].data), tiles[n].data),
         ~Failed(GetTileAnswer(cfg, parsed, tiles))
  PROVE  Tells(GetTileAnswer(cfg, parsed, tiles).value.mime, GetTileAnswer(cfg, parsed, tiles).value.data)
<1> DEFINE with == {n \in DOMAIN tiles : ~tiles[n].nodata}
           first == Lowest(with)
           own == parsed.tiles[first].tileset.format
           format == IF Cardinality(with) = 1 THEN own
                     ELSE IF parsed.format # None THEN parsed.format
                     ELSE IF own # None THEN own ELSE cfg.default_format
           order == InOrder(with, <)
           merged == MergeAll([n \in DOMAIN order |-> Decode(tiles[order[n]].data)])
           data == IF Cardinality(with) = 1 THEN Good(tiles[first].data)
                   ELSE IF Failed(merged) THEN Bad(500) ELSE Write(format, merged.value)
           sooner == ExpiresWithAny([n \in DOMAIN parsed.tiles |-> parsed.tiles[n].tileset], with)
           sent == Answer(data.value, ContentType(format, data.value), sooner)
           answer == GetTileAnswer(cfg, parsed, tiles)
<1>1. answer = IF with = {} THEN Bad(404) ELSE IF Failed(data) THEN data ELSE Good(sent)
  BY Zenon DEF GetTileAnswer
<1>2. Failed(Bad(404)) /\ Failed(Bad(500)) /\ ~Failed(answer) BY BadFails
<1>3. with # {} => first \in DOMAIN tiles BY LowestNatural
<1>4. with # {} /\ ~Failed(data) => Tells(ContentType(format, data.value), data.value)
  <2> SUFFICES ASSUME with # {}, ~Failed(data) PROVE Tells(ContentType(format, data.value), data.value) OBVIOUS
  <2>1. /\ own # None => Writable(own) /\ Told(own, Written(own))
        /\ Tells(ContentType(own, tiles[first].data), tiles[first].data)
    BY <1>3
  <2> HIDE DEF own, merged, with, first
  <2>2. CASE Cardinality(with) = 1
    <3>1. data = Good(tiles[first].data) /\ format = own BY <2>2, Zenon
    <3> HIDE DEF data, format
    <3>2. data.value = tiles[first].data BY <3>1 DEF Good
    <3> QED BY <2>1, <3>1, <3>2
  <2>3. CASE Cardinality(with) # 1
    <3>1. format # None /\ Writable(format) /\ Told(format, Written(format)) BY <2>1, <2>3, Zenon
    <3> HIDE DEF format
    <3>2. ~Failed(Write(format, merged.value)) /\ data = Write(format, merged.value)
      <4>1. data = IF Failed(merged) THEN Bad(500) ELSE Write(format, merged.value) BY <2>3, Zenon
      <4>2. ~Failed(data) OBVIOUS
      <4> HIDE DEF data
      <4> QED BY <1>2, <4>1, <4>2, Zenon
    <3>3. Tells(ContentType(format, Write(format, merged.value).value), Write(format, merged.value).value)
      BY <3>1, <3>2, WrittenTells
    <3> HIDE DEF data
    <3> QED BY <3>2, <3>3, Zenon
  <2> QED BY <2>2, <2>3
<1> HIDE DEF with, data, answer, format, sooner
<1>5. with # {} /\ ~Failed(data) /\ answer = Good(sent) BY <1>1, <1>2, Zenon
<1>6. sent.mime = ContentType(format, data.value) /\ sent.data = data.value BY DEF Answer
<1> HIDE DEF sent
<1>7. answer.value = sent BY <1>5 DEF Good
<1>8. Tells(answer.value.mime, answer.value.data) BY <1>4, <1>5, <1>6, <1>7, Zenon
<1> QED BY <1>8 DEF answer

(* ... and that with a map.                                                *)
AnswerTells(outcome) == Failed(outcome) \/ Tells(outcome.value.mime, outcome.value.data)

LEMMA MapAnswerTells ==
  ASSUME NEW parsed, parsed.format # None, Writable(parsed.format), Told(parsed.format, Written(parsed.format)),
         NEW image, NEW expires
  PROVE  AnswerTells(MapAnswer(parsed, image, expires))
<1> DEFINE data == Write(parsed.format, image)
           sent == Answer(data.value, ContentType(parsed.format, data.value), expires)
<1>1. MapAnswer(parsed, image, expires) = IF Failed(data) THEN data ELSE Good(sent) BY Zenon DEF MapAnswer
<1>2. ~Failed(data) => Tells(ContentType(parsed.format, data.value), data.value)
  <2>1. ~Failed(Write(parsed.format, image)) => Tells(ContentType(parsed.format, Write(parsed.format, image).value),
                                                      Write(parsed.format, image).value)
    BY WrittenTells
  <2> QED BY <2>1
<1>3. sent.mime = ContentType(parsed.format, data.value) /\ sent.data = data.value BY DEF Answer
<1>4. Good(sent).value = sent BY DEF Good
<1> HIDE DEF data, sent
<1>5. CASE Failed(data)
  <2>1. MapAnswer(parsed, image, expires) = data BY <1>1, <1>5, Zenon
  <2> QED BY <1>5, <2>1 DEF AnswerTells
<1>6. CASE ~Failed(data)
  <2>1. MapAnswer(parsed, image, expires) = Good(sent) BY <1>1, <1>6, Zenon
  <2>2. Tells(sent.mime, sent.data) BY <1>2, <1>3, <1>6, Zenon
  <2> QED BY <1>4, <2>1, <2>2, Zenon DEF AnswerTells
<1> QED BY <1>5, <1>6

LEMMA AssembledTells ==
  ASSUME NEW parsed, NEW tiles, parsed.format # None, Writable(parsed.format), Told(parsed.format, Written(parsed.format))
  PROVE  AnswerTells(AssembleAnswer(parsed, tiles))
<1> DEFINE maps == Tabled(FetchedMaps(parsed, MapTiles(parsed.maps), tiles))
           with == WithData(maps)
           expires == SoonestOf(parsed, with)
           merged == MergeAll([n \in DOMAIN with |-> TheOne(maps[with[n]])])
<1>1. AssembleAnswer(parsed, tiles) = MapsAnswer(parsed, maps, with) BY Zenon DEF AssembleAnswer, MergedAnswer
<1>2. MapsAnswer(parsed, maps, with) = IF \E n \in DOMAIN maps : \E m \in maps[n] : Failed(m) THEN Bad(500)
                                       ELSE IF with = << >> THEN Bad(404)
                                       ELSE IF Failed(merged) THEN Bad(500) ELSE MapAnswer(parsed, merged.value, expires)
  <2> HIDE DEF maps, with, expires
  <2> QED BY Zenon DEF MapsAnswer, expires
<1> HIDE DEF merged, expires, maps, with
<1>3. AssembleAnswer(parsed, tiles) \in {Bad(500), Bad(404), MapAnswer(parsed, merged.value, expires)}
  BY <1>1, <1>2, Zenon
<1>4. AnswerTells(MapAnswer(parsed, merged.value, expires)) BY MapAnswerTells
<1>5. AnswerTells(Bad(500)) /\ AnswerTells(Bad(404)) BY BadFails DEF AnswerTells
<1> QED BY <1>3, <1>4, <1>5
(* A map that the sources draw, and that one of them may have sent.        *)
LEMMA OneOfOne ==
  ASSUME NEW n \in Nat, NEW s, s = [k \in 1 .. n |-> s[k]], Len(s) = 1 PROVE DOMAIN s = {1}
<1> DEFINE S == {s[k] : k \in 1 .. n}
<1>1. s \in [1 .. n -> S] OBVIOUS
<1> HIDE DEF S
<1>2. s \in Seq(S) BY <1>1, SeqDef
<1>3. DOMAIN s = 1 .. Len(s) BY <1>2, LenProperties
<1> QED BY <1>3

LEMMA ReceivedMapIsSent ==
  ASSUME NEW cfg, NEW map, NEW answer \in BackendAnswers,
         cfg.sources[map.tileset.source].type \in {"wms", "tms", "mapserver", "dummy"},
         ~Failed(RenderMap(cfg, map, answer)), RenderMap(cfg, map, answer).value.raw_image = {}
  PROVE  TheOne(RenderMap(cfg, map, answer).value.encoded_data).type = "PNG"
<1> DEFINE source == cfg.sources[map.tileset.source]
           drawn == RenderMap(cfg, map, answer)
<1>1. drawn \in {WmsRender(source, map, answer), TmsRender(source, map, answer),
                 MapserverRender(source, map, answer), DummyRender(map)}
  BY DEF RenderMap
<1>2. Sends(WmsRender(source, map, answer)) /\ Sends(TmsRender(source, map, answer)) BY WmsSends, TmsSends
<1>3. \A image : Good(Drawn(image)).value.raw_image # {} BY DEF Good, Drawn
<1>4. DummyRender(map).value.raw_image # {} BY <1>3, Zenon DEF DummyRender
<1>5. ~Failed(MapserverRender(source, map, answer)) => MapserverRender(source, map, answer).value.raw_image # {}
  <2>1. Failed(Bad(500)) BY BadFails
  <2> QED BY <1>3, <2>1, Zenon DEF MapserverRender
<1>6. ~Failed(drawn) /\ drawn.value.raw_image = {} OBVIOUS
<1> HIDE DEF drawn, source
<1>7. Sends(drawn) BY <1>1, <1>2, <1>4, <1>5, <1>6, Zenon
<1> QED BY <1>6, <1>7, Zenon DEF Sends, drawn

LEMMA ForwardedTells ==
  ASSUME NEW cfg, NEW parsed, parsed.type = "GET_MAP", parsed.strategy # "assemble", Drawable(cfg, parsed),
         Writable(parsed.format), Told(parsed.format, Written(parsed.format)),
         NEW answers, \A n \in DOMAIN parsed.maps : answers[n] \in BackendAnswers
  PROVE  AnswerTells(ForwardAnswer(cfg, parsed, answers))
<1> DEFINE drawn == [n \in DOMAIN parsed.maps |-> RenderMap(cfg, parsed.maps[n], answers[n])]
           image(d) == IF Failed(d) THEN d
                       ELSE IF d.value.raw_image # {} THEN Good(TheOne(d.value.raw_image))
                       ELSE Decode(TheOne(d.value.encoded_data))
           merged == MergeAll([n \in DOMAIN drawn |-> image(drawn[n])])
           sourceless == \E n \in DOMAIN parsed.maps : parsed.maps[n].tileset.source = None
           sent == Len(drawn) = 1 /\ ~Failed(drawn[1]) /\ drawn[1].value.raw_image = {}
           data == TheOne(drawn[1].value.encoded_data)
           asSent == Answer(data, SniffedMime(data), 0)
<1>1. ForwardAnswer(cfg, parsed, answers)
        = IF sourceless THEN Bad(404)
          ELSE IF sent THEN Good(asSent)
          ELSE IF Failed(merged) THEN merged
          ELSE MapAnswer(parsed, merged.value, 0)
  BY Zenon DEF ForwardAnswer
<1>2. parsed.format # None /\ Len(parsed.maps) \in Nat /\ DOMAIN parsed.maps = 1 .. Len(parsed.maps)
      /\ \A n \in DOMAIN parsed.maps :
           parsed.maps[n].tileset.source # None =>
             cfg.sources[parsed.maps[n].tileset.source].type \in {"wms", "tms", "mapserver", "dummy"}
  BY DEF Drawable
<1>3. ~sourceless /\ sent => AnswerTells(Good(asSent))
  <2> SUFFICES ASSUME ~sourceless, sent PROVE AnswerTells(Good(asSent)) OBVIOUS
  <2>1. DOMAIN drawn = {1}
    <3> DEFINE k == Len(parsed.maps)
    <3>1. drawn = [n \in 1 .. k |-> drawn[n]] /\ k \in Nat BY <1>2
    <3>2. Len(drawn) = 1 OBVIOUS
    <3> HIDE DEF drawn, k
    <3> QED BY <3>1, <3>2, OneOfOne
  <2>2. 1 \in DOMAIN parsed.maps BY <2>1
  <2>3. drawn[1] = RenderMap(cfg, parsed.maps[1], answers[1]) BY <2>2
  <2>4. cfg.sources[parsed.maps[1].tileset.source].type \in {"wms", "tms", "mapserver", "dummy"}
        /\ answers[1] \in BackendAnswers
    BY <1>2, <2>2
  <2>5. ~Failed(drawn[1]) /\ drawn[1].value.raw_image = {} OBVIOUS
  <2> HIDE DEF drawn
  <2>6. data.type = "PNG" BY <2>3, <2>4, <2>5, ReceivedMapIsSent
  <2> HIDE DEF data
  <2>7. Tells(SniffedMime(data), data) BY <2>6, SniffedTells
  <2>8. asSent.mime = SniffedMime(data) /\ asSent.data = data BY DEF Answer
  <2>9. Good(asSent).value = asSent BY DEF Good
  <2> HIDE DEF asSent
  <2> QED BY <2>7, <2>8, <2>9, Zenon DEF AnswerTells
<1>4. AnswerTells(MapAnswer(parsed, merged.value, 0)) BY <1>2, MapAnswerTells
<1>5. AnswerTells(Bad(404)) BY BadFails DEF AnswerTells
<1>6. Failed(merged) => AnswerTells(merged) BY DEF AnswerTells
<1> HIDE DEF sourceless, sent, merged, asSent
<1> DEFINE answer == ForwardAnswer(cfg, parsed, answers)
<1>7. \/ answer = Bad(404) \/ (~sourceless /\ sent /\ answer = Good(asSent)) \/ (Failed(merged) /\ answer = merged)
      \/ answer = MapAnswer(parsed, merged.value, 0)
  BY <1>1, Zenon
<1> HIDE DEF answer
<1>8. AnswerTells(answer) BY <1>3, <1>4, <1>5, <1>6, <1>7, Zenon
<1> QED BY <1>8 DEF answer

(* What the table says that does not come from tiles.                      *)
LEMMA SaysOfMap ==
  ASSUME NEW d \in DOMAIN Documents, Site[d] # {}, NEW r \in DOMAIN Requests, NEW said \in DOMAIN Handled(d, r).says,
         Handled(d, r).parsed.value.type = "GET_MAP"
  PROVE  LET parsed == Handled(d, r).parsed.value
         IN  /\ \A n \in DOMAIN parsed.maps : said[n] \in BackendAnswers
             /\ Handled(d, r).says[said] = ForwardAnswer(Cfg(d), parsed, said)
<1> DEFINE site == TheOne(Site[d])
           handling == Handled(d, r)
<1>1. site \in Site[d]
  <2>1. \E s : s \in Site[d] OBVIOUS
  <2> QED BY <2>1, Zenon DEF TheOne
<1>2. Site[d] = SiteOf(Documents[d], Requests) BY ServerAssumption
<1>3. PICK c \in Load(Documents[d]) :
        site = [cfg |-> c, handling |-> Tabled([q \in DOMAIN Requests |-> Handling(c, Requests[q])])]
  <2> HIDE DEF site
  <2> QED BY <1>1, <1>2, Zenon DEF SiteOf
<1>4. handling = Handling(c, Requests[r]) /\ Cfg(d) = c
  <2>1. handling = site.handling[r] /\ Cfg(d) = site.cfg BY DEF Handled, Cfg
  <2> HIDE DEF site, handling
  <2> QED BY <1>3, <2>1 DEF Tabled
<1> DEFINE parsed == Dispatch(c, Requests[r]).parsed
           table == [s \in Said(parsed.value) |-> WithoutTiles(c, parsed.value, s)]
<1>5. handling.parsed = parsed /\ (handling.says = << >> \/ handling.says = table)
  <2> HIDE DEF handling
  <2> QED BY <1>4 DEF Handling, Tabled
<1>6. parsed.value.type = "GET_MAP" BY <1>5
<1>7. said \in DOMAIN handling.says OBVIOUS
<1> HIDE DEF parsed, handling
<1>8. DOMAIN << >> = {} /\ DOMAIN table = Said(parsed.value) OBVIOUS
<1>9. said \in Said(parsed.value) /\ handling.says[said] = WithoutTiles(c, parsed.value, said)
  BY <1>5, <1>7, <1>8
<1>10. said \in [DOMAIN parsed.value.maps -> BackendAnswers] BY <1>6, <1>9 DEF Said
<1>11. WithoutTiles(c, parsed.value, said) = ForwardAnswer(c, parsed.value, said) BY <1>6 DEF WithoutTiles
<1> QED BY <1>4, <1>5, <1>9, <1>10, <1>11 DEF handling
(* The steps and the answer: it stays with what it answers, goes, is that  *)
(* of an error, or comes.                                                  *)
Ended == {"cleanup", "idle", "dead"}
ReplyStays ==
  UNCHANGED reply /\ (pc \in Ended => pc' \in Ended /\ request' = request /\ config' \in {config, None})
Sends200(outcome) ==
  ~Failed(outcome) /\ reply' = Reply(200, outcome.value) /\ pc' = "cleanup" /\ UNCHANGED <<config, request>>
TileIsSent ==
  FetchedAll /\ Now.parsed.value.type = "GET_TILE" /\ Sends200(GetTileAnswer(Cfg(config), Now.parsed.value, got))
MapIsSent ==
  FetchedAll /\ Now.parsed.value.type = "GET_MAP" /\ ~NoFormat /\ Sends200(AssembleAnswer(Now.parsed.value, got))
SayingIsSent == pc \in {"forward", "page", "info", "proxy"} /\ \E said \in DOMAIN Now.says : Sends200(Now.says[said])

LEMMA ReplyMoves ==
  TypeInv /\ [Next]_vars => ReplyStays \/ reply'.code # 200 \/ TileIsSent \/ MapIsSent \/ SayingIsSent
<1> DEFINE Goal == ReplyStays \/ reply'.code # 200 \/ TileIsSent \/ MapIsSent \/ SayingIsSent
<1> SUFFICES ASSUME TypeInv, [Next]_vars PROVE Goal OBVIOUS
<1>0. \A code : Bare(code).code = code BY ReplyCoded
<1>1. CASE UNCHANGED vars BY <1>1 DEF vars, ReplyStays, Ended
<1>2. ASSUME NEW d \in DOMAIN Documents \cup {None}, Edit(d) PROVE Goal BY <1>2 DEF Edit, ReplyStays, Ended
<1>3. ASSUME NEW r \in DOMAIN Requests, Accept(r) PROVE Goal
  <2>1. reply' = Bare(0) BY <1>3, Zenon DEF Accept, NoReply
  <2> QED BY <1>0, <2>1
<1>4. CASE Astray
  <2>1. reply' \in {Bare(0), Bare(-1)} BY <1>4, Zenon DEF Astray, NoReply, Undefined
  <2> QED BY <1>0, <2>1
<1>5. CASE OpenFails \/ Stat \/ Read \/ ReadKeepsOld \/ FirstReadFails
  BY <1>5 DEF OpenFails, Stat, Read, ReadKeepsOld, FirstReadFails, loading, ReplyStays, Ended
<1>6. CASE DispatchRequest
  <2>1. pc = "dispatch" /\ UNCHANGED reply BY <1>6, Zenon DEF DispatchRequest
  <2> QED BY <2>1 DEF ReplyStays, Ended
<1>7. ASSUME NEW way \in Ways, FetchNext(way) \/ FetchRest(way) PROVE Goal
  <2>1. pc \in {"fetch", "rest"} /\ UNCHANGED reply BY <1>7, Zenon DEF FetchNext, FetchRest, Fetching
  <2> QED BY <2>1 DEF ReplyStays, Ended
<1>8. ASSUME NEW n \in DOMAIN Tiles, NEW way \in Ways, FetchInThread(n, way) PROVE Goal
  <2>1. pc = "fetch" /\ UNCHANGED reply BY <1>8, Zenon DEF FetchInThread, Fetching
  <2> QED BY <2>1 DEF ReplyStays, Ended
<1>9. CASE JoinThreads
  <2>1. pc = "fetch" /\ UNCHANGED reply BY <1>9, Zenon DEF JoinThreads, Fetching
  <2> QED BY <2>1 DEF ReplyStays, Ended
<1>10. ASSUME NEW outcome, Sent(outcome), pc \in Answering PROVE Sends200(outcome) \/ ReplyStays
  <2>1. CASE Failed(outcome) /\ Refuse(outcome.code) BY <1>10, <2>1 DEF Refuse, ReplyStays, Ended, Answering
  <2>2. CASE ~Failed(outcome) /\ reply' = Reply(200, outcome.value) /\ pc' = "cleanup"
             /\ UNCHANGED <<world, file, loading, service, exceptions, request, error, got, counts>>
    BY <2>2, Zenon DEF loading, Sends200
  <2> QED BY <1>10, <2>1, <2>2, Zenon DEF Sent
<1>11. ASSUME Die, pc \in Answering PROVE Goal BY <1>11 DEF Die, ReplyStays, Answering, Ended
<1>12. ASSUME NEW code, Refuse(code), pc \in Answering PROVE Goal BY <1>12 DEF Refuse, ReplyStays, Answering, Ended
<1>13. FetchedAll => pc \in Answering BY DEF FetchedAll, Answering
<1>14. CASE SendTile BY <1>10, <1>13, <1>14, Zenon DEF SendTile, TileIsSent
<1>15. CASE SendMap BY <1>10, <1>13, <1>15, Zenon DEF SendMap, MapIsSent
<1>16. CASE MapWithoutFormat
  <2> DEFINE outcome == AssembleAnswer([Now.parsed.value EXCEPT !.format = CreatePng("PNG")], got)
  <2>1. FetchedAll /\ IF Failed(outcome) THEN Refuse(outcome.code) ELSE Die BY <1>16, Zenon DEF MapWithoutFormat
  <2> HIDE DEF outcome
  <2>2. pc \in Answering BY <1>13, <2>1
  <2>3. ASSUME Refuse(outcome.code) PROVE Goal
    <3> HIDE DEF Goal
    <3> QED BY <1>12, <2>2, <2>3
  <2>4. ASSUME Die PROVE Goal
    <3> HIDE DEF Goal
    <3> QED BY <1>11, <2>2, <2>4
  <2> HIDE DEF Goal
  <2> QED BY <2>1, <2>3, <2>4
<1>17. CASE \E said \in DOMAIN Now.says : ForwardMap(said) \/ SendPage(said) \/ SendInfo(said) \/ SendProxied(said)
  <2>1. PICK said \in DOMAIN Now.says : ForwardMap(said) \/ SendPage(said) \/ SendInfo(said) \/ SendProxied(said)
    BY <1>17
  <2>2. pc \in {"forward", "page", "info", "proxy"} /\ (Sent(Bad(400)) \/ Sent(Now.says[said]))
    BY <2>1, Zenon DEF ForwardMap, SendPage, SendInfo, SendProxied
  <2>3. pc \in Answering BY <2>2 DEF Answering
  <2>4. ~Sends200(Bad(400)) BY BadFails DEF Sends200
  <2>5. ReplyStays \/ Sends200(Now.says[said])
    <3>1. CASE Sent(Bad(400)) BY <1>10, <2>3, <2>4, <3>1
    <3>2. CASE Sent(Now.says[said]) BY <1>10, <2>3, <3>2
    <3> QED BY <2>2, <3>1, <3>2
  <2>6. Sends200(Now.says[said]) => SayingIsSent BY <2>2, Zenon DEF SayingIsSent
  <2> QED BY <2>5, <2>6
<1>18. CASE NothingToSend
  <2>1. pc \in Answering /\ Die BY <1>18 DEF NothingToSend, Answering
  <2> QED BY <1>11, <2>1
<1>19. CASE RespondToError
  <2>1. reply' \in {Bare(error), Complaint} \/ (pc \notin Ended /\ UNCHANGED reply)
    <3>1. pc \notin Ended
      <4>1. pc \in {"refuse", "respond", "fetch", "rest"} BY <1>19, Zenon DEF RespondToError
      <4> QED BY <4>1 DEF Ended
    <3> QED BY <1>19, <3>1, Zenon DEF RespondToError
  <2>2. error # 200 BY DEF TypeInv, TypeOK, Codes
  <2>3. Complaint.code = error BY <1>0, CodeOfReply DEF Complaint
  <2> QED BY <1>0, <2>1, <2>2, <2>3 DEF ReplyStays
<1>20. CASE Cleanup
  <2>1. pc' \in {"idle", "dead"} /\ UNCHANGED <<reply, request, config>> BY <1>20, Zenon DEF Cleanup, loading
  <2> QED BY <2>1 DEF ReplyStays, Ended
<1>21. CASE Respawn \/ Recycle
  <2>1. pc' = "idle" /\ UNCHANGED <<reply, request>> /\ config' \in {config, None}
    BY <1>21, Zenon DEF Respawn, Recycle, Fresh, Forgotten
  <2> QED BY <2>1 DEF ReplyStays, Ended
<1>22. CASE Finished BY <1>1, <1>22 DEF Finished
<1> HIDE DEF Goal
<1> QED
  BY <1>1, <1>2, <1>3, <1>4, <1>5, <1>6, <1>7, <1>8, <1>9, <1>14, <1>15, <1>16, <1>17, <1>18, <1>19, <1>20,
     <1>21, <1>22 DEF Next, Serve
(* What there is of a tile is of a type that its format tells.             *)
LEMMA GotTells ==
  ASSUME KeysApart(Documents), FormatsTell(Documents), KeptInv, CameInv, pc \in {"fetch", "rest"}, NEW n \in DOMAIN got
  PROVE  Tells(ContentType(Tiles[n].tileset.format, got[n].data), got[n].data)
<1> DEFINE ts == Tiles[n].tileset
           own == ts.format
           data == got[n].data
           types == KeptTypes(Cfg(config), ts)
<1>1. config \in DOMAIN Documents /\ Site[config] # {} /\ request \in DOMAIN Requests
  BY DEF KeptInv, Working, Requested, Documented
<1>2. n \in DOMAIN Handled(config, request).wants /\ Tiles[n] = Handled(config, request).wants[n].tile
  BY DEF KeptInv, Gotten, Tiles, Now
<1>3. config \in Loaded(Documents) /\ Tiles[n] \in TilesWanted(config) BY <1>1, <1>2, WantedOf, Zenon
<1>4. own # None => Told(own, types \cup Written(own)) BY <1>3, Zenon DEF FormatsTell
<1>5. CASE data = NoData
  <2>1. data.type = "NULL" BY <1>5 DEF NoData, Encoded
  <2> HIDE DEF data, own
  <2>2. Tells(ContentType(own, data), data) BY <2>1, MimesOfTypes DEF Tells
  <2> QED BY <2>2 DEF data, own
<1>6. ASSUME NEW d, NEW u, NEW a, NEW p, FromBlock(n, d, u, a, p) PROVE data.type \in types
  <2> DEFINE made == RenderMetatile(Cfg(d), u, BlockOf(u), a)
  <2>1. /\ Works(d, u, a) /\ ~Failed(made) /\ p \in DOMAIN made.value /\ data = made.value[p]
        /\ SameTile(TileOfBlock(u, p), Tiles[n])
        /\ Cfg(d).caches[u.tileset.cache] = Cfg(config).caches[u.tileset.cache]
    BY <1>6, Zenon DEF FromBlock
  <2>2. d \in DOMAIN Documents /\ Site[d] # {} /\ u \in TilesWanted(d) /\ u.tileset.source # None /\ a \in BackendAnswers
    BY <2>1 DEF Works, Loaded
  <2>3. Sound(Cfg(d), u.tileset) /\ OnItsGrid(u)
    <3>1. PICK r \in DOMAIN Requests : \E k \in DOMAIN Handled(d, r).wants : u = Handled(d, r).wants[k].tile
      BY <2>2 DEF TilesWanted
    <3> QED BY <2>2, <3>1, WantedOf, Zenon
  <2>4. made.value[p].type \in KeptTypes(Cfg(d), u.tileset) BY <2>1, <2>2, <2>3, RenderedOfTypes
  <2>5. u.tileset = ts
    <3>1. TileOfBlock(u, p).tileset = u.tileset BY <2>3, FieldsOfBlock
    <3> QED BY <2>1, <3>1 DEF SameTile
  <2>6. KeptTypes(Cfg(d), u.tileset) = types BY <2>1, <2>5 DEF KeptTypes
  <2> HIDE DEF made, data, types
  <2> QED BY <2>1, <2>4, <2>6
<1>7. CASE data # NoData
  <2>1. PICK d, u, a, p : FromBlock(n, d, u, a, p) BY <1>7, GotFrom
  <2>2. data.type \in types BY <1>6, <2>1
  <2>3. own = None => data.type # "RAW" BY <2>2 DEF KeptTypes
  <2> HIDE DEF data, own, types
  <2>4. data.type \in types \cup Written(own) BY <2>2
  <2>5. Tells(ContentType(own, data), data) BY <1>4, <2>3, <2>4, ContentTells
  <2> QED BY <2>5 DEF data, own
<1> QED BY <1>5, <1>7

LEMMA TileSentTells ==
  ASSUME KeysApart(Documents), FormatsTell(Documents), KeptInv, CameInv, Parsed, FetchedAll,
         Now.parsed.value.type = "GET_TILE"
  PROVE  AnswerTells(GetTileAnswer(Cfg(config), Now.parsed.value, got))
<1> DEFINE parsed == Now.parsed.value
           cfg == Cfg(config)
<1>1. pc \in {"fetch", "rest"} /\ pc \in Answering BY DEF FetchedAll, Answering
<1>2. config \in DOMAIN Documents /\ Site[config] # {} /\ request \in DOMAIN Requests /\ ~Failed(Now.parsed)
  BY <1>1 DEF KeptInv, Working, Requested, Documented, Parsed
<1>3. config \in Loaded(Documents) BY <1>2 DEF Loaded
<1>4. cfg.default_format # None /\ Writable(cfg.default_format) /\ Understood(parsed)
  BY <1>2, WhatIsHandled, Zenon DEF Now
<1>5. Told(cfg.default_format, Written(cfg.default_format)) BY <1>3, Zenon DEF FormatsTell
<1>6. parsed.format # None => Writable(parsed.format) /\ Told(parsed.format, Written(parsed.format))
  <2>1. parsed.format # None => Writable(parsed.format) BY <1>4 DEF Understood
  <2>2. parsed.type \in {"GET_TILE", "GET_MAP"} OBVIOUS
  <2>3. parsed.format # None => Told(parsed.format, Written(parsed.format))
    BY <1>2, <1>3, <2>2, Zenon DEF FormatsTell, Now
  <2> QED BY <2>1, <2>3
<1>7. DOMAIN got \subseteq DOMAIN Handled(config, request).wants BY DEF KeptInv, Gotten, Now
<1>8. ASSUME NEW n \in DOMAIN got
      PROVE  /\ n \in Nat /\ Tells(ContentType(parsed.tiles[n].tileset.format, got[n].data), got[n].data)
             /\ parsed.tiles[n].tileset.format # None =>
                  /\ Writable(parsed.tiles[n].tileset.format)
                  /\ Told(parsed.tiles[n].tileset.format, Written(parsed.tiles[n].tileset.format))
  <2>1. n \in DOMAIN Handled(config, request).wants /\ n \in Nat BY <1>2, <1>7, WhatIsWanted
  <2>2. parsed = Handled(config, request).parsed.value BY DEF Now
  <2>3. Handled(config, request).wants[n].tile = parsed.tiles[n] BY <1>2, <2>1, <2>2, WantsOfTile, Zenon
  <2>4. parsed.tiles[n] = Tiles[n] BY <2>1, <2>3 DEF Tiles, Now
  <2>5. Sound(cfg, Tiles[n].tileset) /\ Tiles[n] \in TilesWanted(config) BY <1>2, <2>1, <2>3, <2>4, WantedOf, Zenon
  <2>6. Tells(ContentType(Tiles[n].tileset.format, got[n].data), got[n].data) BY <1>1, GotTells
  <2> DEFINE own == Tiles[n].tileset.format
  <2>7. own # None => Writable(own) BY <2>5 DEF Sound
  <2>8. own # None => Told(own, KeptTypes(cfg, Tiles[n].tileset) \cup Written(own))
    BY <1>3, <2>5, Zenon DEF FormatsTell
  <2> HIDE DEF own
  <2>9. own # None => Told(own, Written(own)) BY <2>8 DEF Told
  <2> HIDE DEF parsed
  <2> QED BY <2>1, <2>4, <2>6, <2>7, <2>9 DEF own
<1> HIDE DEF parsed, cfg
<1>9. ~Failed(GetTileAnswer(cfg, parsed, got)) =>
        Tells(GetTileAnswer(cfg, parsed, got).value.mime, GetTileAnswer(cfg, parsed, got).value.data)
  BY <1>4, <1>5, <1>6, <1>8, TileAnswerTells
<1>10. AnswerTells(GetTileAnswer(cfg, parsed, got)) BY <1>9, Zenon DEF AnswerTells
<1> QED BY <1>10 DEF cfg, parsed

LEMMA MapSentTells ==
  ASSUME FormatsTell(Documents), KeptInv, Parsed, pc \in Answering, Now.parsed.value.type = "GET_MAP"
  PROVE  /\ ~NoFormat => AnswerTells(AssembleAnswer(Now.parsed.value, got))
         /\ pc = "forward" => \A said \in DOMAIN Now.says : AnswerTells(Now.says[said])
<1> DEFINE parsed == Now.parsed.value
<1>1. config \in DOMAIN Documents /\ Site[config] # {} /\ request \in DOMAIN Requests /\ ~Failed(Now.parsed)
      /\ Next1(parsed) = IF pc = "rest" THEN "fetch" ELSE pc
  BY DEF KeptInv, Requested, Documented, Parsed, Answering
<1>2. config \in Loaded(Documents) BY <1>1 DEF Loaded
<1>3. Understood(parsed) /\ Drawable(Cfg(config), parsed) BY <1>1, WhatIsHandled, Zenon DEF Now
<1>4. parsed.format # None => Writable(parsed.format) /\ Told(parsed.format, Written(parsed.format))
  <2>1. parsed.format # None => Writable(parsed.format) BY <1>3 DEF Understood
  <2>2. parsed.type \in {"GET_TILE", "GET_MAP"} OBVIOUS
  <2>3. parsed.format # None => Told(parsed.format, Written(parsed.format))
    BY <1>1, <1>2, <2>2, Zenon DEF FormatsTell, Now
  <2> QED BY <2>1, <2>3
<1>5. ~NoFormat => AnswerTells(AssembleAnswer(parsed, got))
  <2> SUFFICES ASSUME parsed.format # None PROVE AnswerTells(AssembleAnswer(parsed, got)) BY DEF NoFormat
  <2> HIDE DEF parsed
  <2> QED BY <1>4, AssembledTells
<1>6. ASSUME pc = "forward", NEW said \in DOMAIN Now.says PROVE AnswerTells(Now.says[said])
  <2>1. parsed.strategy # "assemble" BY <1>1, <1>6 DEF Next1
  <2>2. parsed.format # None BY <1>3, <2>1 DEF Drawable
  <2>3. /\ \A n \in DOMAIN parsed.maps : said[n] \in BackendAnswers
        /\ Now.says[said] = ForwardAnswer(Cfg(config), parsed, said)
    BY <1>1, SaysOfMap, Zenon DEF Now
  <2>4. AnswerTells(ForwardAnswer(Cfg(config), parsed, said)) BY <1>3, <1>4, <2>1, <2>2, <2>3, ForwardedTells
  <2> QED BY <2>3, <2>4, Zenon
<1> QED BY <1>5, <1>6

MimeInv == MimeTellsTheBody /\ (reply.code = 200 => pc \in Ended)

LEMMA MimeStart == Init => MimeInv
<1> SUFFICES ASSUME Init PROVE MimeInv OBVIOUS
<1>1. reply = Bare(0) BY Zenon DEF Init, NoReply
<1>2. reply.code = 0 BY <1>1, ReplyCoded
<1> QED BY <1>2 DEF MimeInv, MimeTellsTheBody

LEMMA MimeStays ==
  ASSUME KeysApart(Documents), FormatsTell(Documents)
  PROVE  MimeInv /\ TypeInv /\ KeptInv /\ CameInv /\ Parsed /\ [Next]_vars => MimeInv'
<1> SUFFICES ASSUME MimeInv, TypeInv, KeptInv, CameInv, Parsed, [Next]_vars PROVE MimeInv' OBVIOUS
<1>1. CASE ReplyStays
  <2> SUFFICES ASSUME reply'.code = 200
      PROVE  pc' \in Ended /\ (Drawing' /\ reply'.data.type \in DOMAIN MimeOfType => reply'.mime = MimeOfType[reply'.data.type])
    BY DEF MimeInv, MimeTellsTheBody
  <2>1. reply' = reply /\ pc' \in Ended /\ request' = request /\ config' \in {config, None}
    BY <1>1 DEF ReplyStays, MimeInv
  <2>2. Drawing' => Drawing BY <2>1 DEF Drawing, Now
  <2> QED BY <2>1, <2>2 DEF MimeInv, MimeTellsTheBody
<1>2. CASE reply'.code # 200 BY <1>2 DEF MimeInv, MimeTellsTheBody
<1>3. ASSUME NEW outcome, Sends200(outcome), Drawing => AnswerTells(outcome) PROVE MimeInv'
  <2>1. ~Failed(outcome) /\ reply' = Reply(200, outcome.value) /\ pc' = "cleanup" /\ UNCHANGED <<config, request>>
    BY <1>3 DEF Sends200
  <2>2. Drawing' <=> Drawing BY <2>1 DEF Drawing, Now
  <2>3. reply'.data = outcome.value.data /\ reply'.mime = outcome.value.mime BY <2>1 DEF Reply
  <2>4. Drawing => Tells(reply'.mime, reply'.data)
    <3>1. Drawing => Tells(outcome.value.mime, outcome.value.data) BY <1>3, <2>1 DEF AnswerTells
    <3> QED BY <2>3, <3>1
  <2> QED BY <2>1, <2>2, <2>4 DEF MimeInv, MimeTellsTheBody, Tells, Ended
<1>4. CASE TileIsSent
  <2>1. AnswerTells(GetTileAnswer(Cfg(config), Now.parsed.value, got)) BY <1>4, TileSentTells DEF TileIsSent
  <2> QED BY <1>3, <1>4, <2>1, Zenon DEF TileIsSent
<1>5. CASE MapIsSent
  <2>1. pc \in Answering BY <1>5 DEF MapIsSent, FetchedAll, Answering
  <2>2. AnswerTells(AssembleAnswer(Now.parsed.value, got)) BY <1>5, <2>1, MapSentTells DEF MapIsSent
  <2> QED BY <1>3, <1>5, <2>2, Zenon DEF MapIsSent
<1>6. CASE SayingIsSent
  <2>1. pc \in {"forward", "page", "info", "proxy"} /\ pc \in Answering BY <1>6 DEF SayingIsSent, Answering
  <2>2. PICK said \in DOMAIN Now.says : Sends200(Now.says[said]) BY <1>6, Zenon DEF SayingIsSent
  <2>3. Next1(Now.parsed.value) = pc BY <2>1 DEF Parsed
  <2>4. Drawing => AnswerTells(Now.says[said])
    <3> SUFFICES ASSUME Drawing PROVE AnswerTells(Now.says[said]) OBVIOUS
    <3>1. Now.parsed.value.type \in {"GET_TILE", "GET_MAP"} BY DEF Drawing
    <3>2. Now.parsed.value.type = "GET_MAP" /\ pc = "forward" BY <2>1, <2>3, <3>1 DEF Next1
    <3> QED BY <2>1, <3>2, MapSentTells
  <2> QED BY <1>3, <2>2, <2>4
<1> QED BY <1>1, <1>2, <1>4, <1>5, <1>6, ReplyMoves

(* Where caches keep tiles apart and formats tell what they write: whatever*)
(* was stored, for whichever request, document and format, the type of     *)
(* content of a tile or map is that of its body.                           *)
THEOREM MimeRight ==
  ASSUME KeysApart(Documents), FormatsTell(Documents)
  PROVE  Spec => []MimeTellsTheBody
<1>1. Spec => []HarmInv BY HarmStart, HarmStays, PTL DEF Spec
<1>2. Spec => []KeptInv BY KeptStart, KeptStays, <1>1, PTL DEF Spec
<1>3. Spec => []CameInv BY CameStart, CameStays, <1>2, PTL DEF Spec
<1>4. Spec => []Parsed BY ParsedStart, ParsedStays, <1>2, PTL DEF Spec
<1>5. Spec => []CodedTiles BY TilesCoded, <1>2, <1>3, PTL
<1>6. Spec => []TypeInv BY TypeStart, TypeStays, <1>2, <1>4, <1>5, PTL DEF Spec
<1>7. Spec => []MimeInv BY MimeStart, MimeStays, <1>2, <1>3, <1>4, <1>6, PTL DEF Spec
<1>8. MimeInv => MimeTellsTheBody BY DEF MimeInv
<1> QED BY <1>7, <1>8, PTL

-----------------------------------------------------------------------------
(* Tiles show their place.                                                  *)

(* What a WMS source draws of a metatile, it draws because it has answered *)
(* with a picture.                                                         *)
LEMMA DrawnOfPicture ==
  ASSUME NEW cfg, NEW t, NEW m, NEW a \in BackendAnswers, cfg.sources[t.tileset.source].type = "wms",
         ~Failed(RenderMetatile(cfg, t, m, a))
  PROVE  a = "picture"
<1> DEFINE map == MapOf(t, m)
           source == cfg.sources[t.tileset.source]
           picture == PictureOf(<<LayersOf(source, map), Dims(map)>>, map.extent, map.w, map.h)
           drawn == RenderMap(cfg, map, a)
           made == RenderMetatile(cfg, t, m, a)
<1>1. Failed(drawn) => made = drawn BY Zenon DEF RenderMetatile
<1>2. drawn = WmsRender(source, map, a)
  <2>1. map.tileset = t.tileset BY DEF MapOf, Map
  <2> QED BY <2>1 DEF RenderMap
<1> HIDE DEF picture
<1>3. WmsRender(source, map, a) = AsPicture(DoRequest(a, picture)) BY Zenon DEF WmsRender, picture
<1>4. Failed(Bad(502)) BY BadFails
<1>5. a = "text" => Failed(AsPicture(DoRequest(a, picture)))
  <2>1. DoRequest("text", picture) = Good(Encoded("text", picture)) BY DEF DoRequest
  <2>2. ~IsValidFormat(Encoded("text", picture)) BY DEF IsValidFormat, HeaderSniff, Encoded
  <2>3. Good(Encoded("text", picture)).value = Encoded("text", picture) BY DEF Good
  <2>4. AsPicture(Good(Encoded("text", picture))) \in {Good(Encoded("text", picture)), Bad(502)}
        /\ (~Failed(Good(Encoded("text", picture))) => AsPicture(Good(Encoded("text", picture))) = Bad(502))
    BY <2>2, <2>3, Zenon DEF AsPicture
  <2> QED BY <1>4, <2>1, <2>4, Zenon
<1>6. a = "unreachable" => Failed(AsPicture(DoRequest(a, picture)))
  <2>1. DoRequest("unreachable", picture) = Bad(502) BY DEF DoRequest
  <2>2. AsPicture(Bad(502)) = Bad(502) BY <1>4, Zenon DEF AsPicture
  <2> QED BY <1>4, <2>1, <2>2
<1>7. ~Failed(drawn) BY <1>1
<1> HIDE DEF drawn, map, source, made
<1>8. ~Failed(AsPicture(DoRequest(a, picture))) BY <1>2, <1>3, <1>7
<1> QED BY <1>5, <1>6, <1>8 DEF BackendAnswers

(* What was got of the tile of such a request is nothing, or shows it.     *)
Shows(image, of, at) ==
  \A s \in DOMAIN image.px : image.px[s].shows = {Piece(of, PixelAt(at, image.w, image.h, s[1], s[2]))}

LEMMA GotShowsTile ==
  ASSUME KeysApart(Documents), KeptInv, CameInv, pc \in {"fetch", "rest"}, NEW n \in DOMAIN got, NEW t, t = Tiles[n],
         t.tileset.source # None, Cfg(config).sources[t.tileset.source].type = "wms",
         t.tileset.format # None, t.tileset.watermark = None
  PROVE  \/ got[n].data = NoData
         \/ ShowsTile(got[n].data, <<LayersOf(Cfg(config).sources[t.tileset.source], t), Dims(t)>>, t.grid_link.grid, t)
<1> DEFINE asked == <<LayersOf(Cfg(config).sources[t.tileset.source], t), Dims(t)>>
<1>1. ASSUME NEW d, NEW u, NEW a, NEW p, FromBlock(n, d, u, a, p)
      PROVE  ShowsTile(got[n].data, asked, t.grid_link.grid, t)
  <2> DEFINE m == BlockOf(u)
             g == u.grid_link.grid
             made == RenderMetatile(Cfg(d), u, m, a)
             v == TileOfBlock(u, p)
             place == TileAt(m, u.tileset.metasize, p)
             of == AskedOfSource(Cfg(d), u, m)
  <2>1. /\ Works(d, u, a) /\ ~Failed(made) /\ p \in MetaTiles(g, m, u.tileset.metasize)
        /\ got[n].data = made.value[p] /\ SameTile(v, t)
        /\ Cfg(d).sources[u.tileset.source] = Cfg(config).sources[u.tileset.source]
    BY <1>1, Zenon DEF FromBlock
  <2>2. d \in DOMAIN Documents /\ Site[d] # {} /\ u \in TilesWanted(d) /\ a \in BackendAnswers
    BY <2>1 DEF Works, Loaded
  <2>3. Sound(Cfg(d), u.tileset) /\ OnItsGrid(u)
    <3>1. PICK r \in DOMAIN Requests : \E k \in DOMAIN Handled(d, r).wants : u = Handled(d, r).wants[k].tile
      BY <2>2 DEF TilesWanted
    <3> QED BY <2>2, <3>1, WantedOf, Zenon
  <2>4. /\ v.tileset = u.tileset /\ v.grid_link = u.grid_link /\ v.dimensions = u.dimensions
        /\ v.x = place.x /\ v.y = place.y /\ v.z = u.z /\ place.z = u.z
    BY <2>3, FieldsOfBlock
  <2> HIDE DEF made, v, place, of
  <2>5. u.tileset = t.tileset /\ u.dimensions = t.dimensions /\ g = t.grid_link.grid
        /\ place.x = t.x /\ place.y = t.y /\ place.z = t.z
    BY <2>1, <2>4 DEF SameTile
  <2>6. Cfg(d).sources[u.tileset.source].type = "wms" BY <2>1, <2>5
  <2>7. a = "picture" BY <2>1, <2>2, <2>6, DrawnOfPicture DEF made
  <2>8. Writable(u.tileset.format) /\ u.tileset.format # None /\ u.tileset.watermark = None
    BY <2>3, <2>5 DEF Sound
  <2>9. IsGrid(g) /\ IsSize(u.tileset.metasize) /\ u.tileset.metabuffer \in Nat
        /\ m.x \in Nat /\ m.y \in Nat /\ m.z \in DOMAIN g.levels
    <3>1. /\ IsGrid(g) /\ IsSize(u.tileset.metasize) /\ u.tileset.metabuffer \in Nat /\ u.z \in DOMAIN g.levels
          /\ [x |-> u.x, y |-> u.y, z |-> u.z] \in TilesOf(g, u.z)
      BY <2>3 DEF OnItsGrid
    <3>2. u.x \in Nat /\ u.y \in Nat BY <3>1 DEF TilesOf, IsGrid
    <3>3. u.tileset.metasize.x \in Nat \ {0} /\ u.tileset.metasize.y \in Nat \ {0} BY <3>1 DEF IsSize, Side
    <3>4. u.x \div u.tileset.metasize.x \in Nat /\ u.y \div u.tileset.metasize.y \in Nat BY <3>2, <3>3
    <3> QED BY <3>1, <3>4 DEF BlockOf, MetatileOf
  <2>10. ~Failed(RenderMetatile(Cfg(d), u, m, "picture")) BY <2>1, <2>7 DEF made
  <2>11. got[n].data = RenderMetatile(Cfg(d), u, m, "picture").value[p] BY <2>1, <2>7 DEF made
  <2>12. ShowsTile(got[n].data, of, g, place)
    <3> HIDE DEF m
    <3>1. ShowsTile(RenderMetatile(Cfg(d), u, m, "picture").value[p], AskedOfSource(Cfg(d), u, m), g,
                    TileAt(m, u.tileset.metasize, p))
      BY <2>1, <2>6, <2>8, <2>9, <2>10, TilesShowWhereTheyLie
    <3> QED BY <2>11, <3>1, Zenon DEF place, of
  <2>13. of = asked
    <3>1. LayersOf(Cfg(d).sources[u.tileset.source], MapOf(u, m)) = LayersOf(Cfg(config).sources[t.tileset.source], t)
      <4>1. MapOf(u, m).tileset = t.tileset BY <2>5 DEF MapOf, Map
      <4> QED BY <2>1, <2>5, <4>1 DEF LayersOf
    <3>2. Dims(MapOf(u, m)) = Dims(t)
      <4>1. MapOf(u, m).dimensions = t.dimensions BY <2>5 DEF MapOf, Map
      <4> QED BY <4>1 DEF Dims
    <3> QED BY <3>1, <3>2, Zenon DEF AskedOfSource, of
  <2>14. GetExtent(g, place.x, place.y, place.z) = GetExtent(g, t.x, t.y, t.z) BY <2>5
  <2> HIDE DEF asked, g
  <2>15. ShowsTile(got[n].data, asked, g, t) BY <2>12, <2>13, <2>14, Zenon DEF ShowsTile
  <2>16. g = t.grid_link.grid BY <2>5
  <2> QED BY <2>15, <2>16
<1> QED BY <1>1, GotFrom

LEMMA GotShows ==
  ASSUME KeysApart(Documents), KeptInv, CameInv, pc \in {"fetch", "rest"}, NEW n \in DOMAIN got,
         OneWmsTile(config, request)
  PROVE  got[n].data = NoData \/ Shows(got[n].data.image, Meant.of, Meant.at)
<1> DEFINE t == Tiles[n]
           g == t.grid_link.grid
           asked == <<LayersOf(Cfg(config).sources[t.tileset.source], t), Dims(t)>>
           image == got[n].data.image
<1>1. config \in DOMAIN Documents /\ Site[config] # {} /\ request \in DOMAIN Requests
  BY DEF KeptInv, Working, Requested, Documented
<1>2. n \in DOMAIN Handled(config, request).wants /\ t = Handled(config, request).wants[n].tile
  BY DEF KeptInv, Gotten, Tiles, Now
<1>3. n = 1 BY <1>2 DEF OneWmsTile
<1>4. /\ t.tileset.source # None /\ Cfg(config).sources[t.tileset.source].type = "wms"
      /\ t.tileset.format # None /\ t.tileset.watermark = None
      /\ Meant.of = asked /\ Meant.at = GetExtent(g, t.x, t.y, t.z)
  BY <1>2, <1>3 DEF OneWmsTile, Meant
<1> HIDE DEF t
<1>5. got[n].data = NoData \/ ShowsTile(got[n].data, asked, g, t) BY <1>4, GotShowsTile DEF t
<1>6. CASE ShowsTile(got[n].data, asked, g, t)
  <2> HIDE DEF asked, g, image
  <2>1. /\ image.w = g.tile_sx /\ image.h = g.tile_sy /\ DOMAIN image.px = Spots(g.tile_sx, g.tile_sy)
        /\ \A c \in 0 .. g.tile_sx - 1, row \in 0 .. g.tile_sy - 1 :
             image.px[<<c, row>>]
               = Pixel({Piece(asked, PixelAt(GetExtent(g, t.x, t.y, t.z), g.tile_sx, g.tile_sy, c, row))},
                       image.px[<<c, row>>].alpha)
    BY <1>6, Zenon DEF ShowsTile, image
  <2>2. \A shows, alpha : Pixel(shows, alpha).shows = shows BY DEF Pixel
  <2>3. \A s \in DOMAIN image.px :
          s = <<s[1], s[2]>> /\ s[1] \in 0 .. g.tile_sx - 1 /\ s[2] \in 0 .. g.tile_sy - 1
    BY <2>1 DEF Spots
  <2>4. \A s \in DOMAIN image.px :
          image.px[s].shows = {Piece(asked, PixelAt(GetExtent(g, t.x, t.y, t.z), g.tile_sx, g.tile_sy, s[1], s[2]))}
    <3> SUFFICES ASSUME NEW s \in DOMAIN image.px
        PROVE  image.px[s].shows
                 = {Piece(asked, PixelAt(GetExtent(g, t.x, t.y, t.z), g.tile_sx, g.tile_sy, s[1], s[2]))}
      OBVIOUS
    <3> DEFINE c == s[1]
               row == s[2]
    <3>1. s = <<c, row>> /\ c \in 0 .. g.tile_sx - 1 /\ row \in 0 .. g.tile_sy - 1 BY <2>3
    <3> HIDE DEF c, row
    <3>2. image.px[<<c, row>>]
            = Pixel({Piece(asked, PixelAt(GetExtent(g, t.x, t.y, t.z), g.tile_sx, g.tile_sy, c, row))},
                    image.px[<<c, row>>].alpha)
      BY <2>1, <3>1, Zenon
    <3>3. image.px[s] = Pixel({Piece(asked, PixelAt(GetExtent(g, t.x, t.y, t.z), g.tile_sx, g.tile_sy, c, row))},
                              image.px[s].alpha)
      BY <3>1, <3>2
    <3>4. image.px[s].shows = {Piece(asked, PixelAt(GetExtent(g, t.x, t.y, t.z), g.tile_sx, g.tile_sy, c, row))}
      BY <2>2, <3>3
    <3> QED BY <3>4 DEF c, row
  <2>5. Shows(image, asked, GetExtent(g, t.x, t.y, t.z)) BY <2>1, <2>4, Zenon DEF Shows
  <2> QED BY <1>4, <2>5 DEF image
<1> QED BY <1>5, <1>6

(* The answer with one tile is that tile.                                  *)
LEMMA OneTileAnswer ==
  ASSUME NEW cfg, NEW parsed, NEW tiles, DOMAIN tiles \subseteq {1}, ~Failed(GetTileAnswer(cfg, parsed, tiles))
  PROVE  1 \in DOMAIN tiles /\ GetTileAnswer(cfg, parsed, tiles).value.data = tiles[1].data
<1> DEFINE with == {n \in DOMAIN tiles : ~tiles[n].nodata}
           first == Lowest(with)
           own == parsed.tiles[first].tileset.format
           format == IF Cardinality(with) = 1 THEN own
                     ELSE IF parsed.format # None THEN parsed.format
                     ELSE IF own # None THEN own ELSE cfg.default_format
           order == InOrder(with, <)
           merged == MergeAll([n \in DOMAIN order |-> Decode(tiles[order[n]].data)])
           data == IF Cardinality(with) = 1 THEN Good(tiles[first].data)
                   ELSE IF Failed(merged) THEN Bad(500) ELSE Write(format, merged.value)
           sooner == ExpiresWithAny([n \in DOMAIN parsed.tiles |-> parsed.tiles[n].tileset], with)
           sent == Answer(data.value, ContentType(format, data.value), sooner)
           answer == GetTileAnswer(cfg, parsed, tiles)
<1>1. answer = IF with = {} THEN Bad(404) ELSE IF Failed(data) THEN data ELSE Good(sent)
  BY Zenon DEF GetTileAnswer
<1>2. Failed(Bad(404)) /\ ~Failed(answer) BY BadFails
<1> HIDE DEF answer
<1>3. with # {} /\ ~Failed(data) /\ answer = Good(sent) BY <1>1, <1>2, Zenon
<1>4. with = {1} /\ 1 \in DOMAIN tiles
  <2>1. with \subseteq DOMAIN tiles /\ with # {} BY <1>3
  <2> HIDE DEF with
  <2> QED BY <2>1
<1>5. Cardinality(with) = 1 BY <1>4, FS_Singleton
<1>6. first \in with
  <2>1. with # {} /\ with \subseteq Nat BY <1>4
  <2> HIDE DEF with
  <2> QED BY <2>1, LowestNatural
<1> HIDE DEF with, first
<1>7. first = 1 BY <1>4, <1>6
<1>8. data = Good(tiles[1].data) BY <1>5, <1>7, Zenon
<1> HIDE DEF data
<1>9. data.value = tiles[1].data BY <1>8 DEF Good
<1>10. sent.data = data.value BY DEF Answer
<1> HIDE DEF sent
<1>11. answer.value = sent BY <1>3 DEF Good
<1> QED BY <1>4, <1>9, <1>10, <1>11 DEF answer

TilesInv == (OneWmsTile(config, request) => TilesShowTheirPlace) /\ (reply.code = 200 => pc \in Ended)

LEMMA TilesStart == Init => TilesInv
<1> SUFFICES ASSUME Init PROVE TilesInv OBVIOUS
<1>1. reply = Bare(0) BY Zenon DEF Init, NoReply
<1>2. reply.code = 0 BY <1>1, ReplyCoded
<1> QED BY <1>2 DEF TilesInv, TilesShowTheirPlace, Pictured

LEMMA TilesStay ==
  ASSUME KeysApart(Documents)
  PROVE  TilesInv /\ TypeInv /\ KeptInv /\ CameInv /\ Parsed /\ [Next]_vars => TilesInv'
<1> SUFFICES ASSUME TilesInv, TypeInv, KeptInv, CameInv, Parsed, [Next]_vars PROVE TilesInv' OBVIOUS
<1>1. CASE ReplyStays
  <2> SUFFICES ASSUME reply'.code = 200
      PROVE  pc' \in Ended /\ (OneWmsTile(config, request)' => TilesShowTheirPlace')
    BY DEF TilesInv, TilesShowTheirPlace, Pictured
  <2>1. reply' = reply /\ pc' \in Ended /\ request' = request /\ config' \in {config, None}
    BY <1>1 DEF ReplyStays, TilesInv
  <2>2. CASE config' = None BY <2>1, <2>2 DEF TilesShowTheirPlace, Pictured
  <2>3. CASE config' = config
    <3>1. (OneWmsTile(config, request)' <=> OneWmsTile(config, request)) /\ (TilesShowTheirPlace' <=> TilesShowTheirPlace)
      BY <2>1, <2>3 DEF TilesShowTheirPlace, Pictured, Now, Meant
    <3> QED BY <2>1, <3>1 DEF TilesInv
  <2> QED BY <2>1, <2>2, <2>3
<1>2. CASE reply'.code # 200 BY <1>2 DEF TilesInv, TilesShowTheirPlace, Pictured
<1>3. ASSUME NEW outcome, Sends200(outcome)
      PROVE  /\ pc' \in Ended /\ reply'.data = outcome.value.data /\ Now' = Now /\ Meant' = Meant
             /\ (OneWmsTile(config, request)' <=> OneWmsTile(config, request))
  <2>1. ~Failed(outcome) /\ reply' = Reply(200, outcome.value) /\ pc' = "cleanup" /\ UNCHANGED <<config, request>>
    BY <1>3 DEF Sends200
  <2>2. reply'.data = outcome.value.data BY <2>1 DEF Reply
  <2> QED BY <2>1, <2>2 DEF Now, Meant, Ended
<1>4. CASE TileIsSent
  <2> DEFINE parsed == Now.parsed.value
             outcome == GetTileAnswer(Cfg(config), parsed, got)
  <2>1. Sends200(outcome) /\ pc \in {"fetch", "rest"} BY <1>4 DEF TileIsSent, FetchedAll
  <2>2. pc' \in Ended /\ reply'.data = outcome.value.data /\ Meant' = Meant
        /\ (OneWmsTile(config, request)' <=> OneWmsTile(config, request))
    BY <1>3, <2>1
  <2>3. ASSUME OneWmsTile(config, request) PROVE TilesShowTheirPlace'
    <3>1. DOMAIN got \subseteq {1} BY <2>1, <2>3 DEF KeptInv, Gotten, Now, OneWmsTile
    <3>2. ~Failed(outcome) BY <2>1 DEF Sends200
    <3>3. 1 \in DOMAIN got /\ outcome.value.data = got[1].data
      <4> HIDE DEF parsed
      <4> QED BY <3>1, <3>2, OneTileAnswer
    <3>4. got[1].data = NoData \/ Shows(got[1].data.image, Meant.of, Meant.at) BY <2>1, <2>3, <3>3, GotShows
    <3> HIDE DEF outcome
    <3>5. CASE got[1].data = NoData
      <4>1. reply'.data.type = "NULL" BY <2>2, <3>3, <3>5 DEF NoData, Encoded
      <4> QED BY <4>1 DEF TilesShowTheirPlace, Pictured
    <3>6. CASE Shows(got[1].data.image, Meant.of, Meant.at)
      <4>1. Shows(reply'.data.image, Meant'.of, Meant'.at) BY <2>2, <3>3, <3>6
      <4> QED BY <4>1 DEF Shows, TilesShowTheirPlace
    <3> QED BY <3>4, <3>5, <3>6
  <2> QED BY <2>2, <2>3 DEF TilesInv
<1>5. CASE MapIsSent
  <2>1. Now.parsed.value.type = "GET_MAP" /\ Sends200(AssembleAnswer(Now.parsed.value, got)) BY <1>5, Zenon DEF MapIsSent
  <2>2. pc' \in Ended /\ Now' = Now BY <1>3, <2>1
  <2> QED BY <2>1, <2>2 DEF TilesInv, TilesShowTheirPlace, Pictured
<1>6. CASE SayingIsSent
  <2>1. pc \in {"forward", "page", "info", "proxy"} /\ pc \in Answering BY <1>6 DEF SayingIsSent, Answering
  <2>2. PICK said \in DOMAIN Now.says : Sends200(Now.says[said]) BY <1>6, Zenon DEF SayingIsSent
  <2>3. pc' \in Ended /\ Now' = Now BY <1>3, <2>2
  <2>4. Next1(Now.parsed.value) = pc BY <2>1 DEF Parsed
  <2>5. Now.parsed.value.type # "GET_TILE" BY <2>1, <2>4 DEF Next1
  <2> QED BY <2>3, <2>5 DEF TilesInv, TilesShowTheirPlace, Pictured
<1> QED BY <1>1, <1>2, <1>4, <1>5, <1>6, ReplyMoves

(* Where caches keep tiles apart: a request for one tile that a WMS draws  *)
(* is answered with what was asked for, at the place the tile has in its   *)
(* grid, pixel by pixel. It may have been cut out of a metatile for another*)
(* request, under another document, with any border, rows counted either   *)
(* way, and have been written in any format.                               *)
THEOREM TilesRight ==
  ASSUME KeysApart(Documents)
  PROVE  Spec => [](OneWmsTile(config, request) => TilesShowTheirPlace)
<1>1. Spec => []HarmInv BY HarmStart, HarmStays, PTL DEF Spec
<1>2. Spec => []KeptInv BY KeptStart, KeptStays, <1>1, PTL DEF Spec
<1>3. Spec => []CameInv BY CameStart, CameStays, <1>2, PTL DEF Spec
<1>4. Spec => []Parsed BY ParsedStart, ParsedStays, <1>2, PTL DEF Spec
<1>5. Spec => []CodedTiles BY TilesCoded, <1>2, <1>3, PTL
<1>6. Spec => []TypeInv BY TypeStart, TypeStays, <1>2, <1>4, <1>5, PTL DEF Spec
<1>7. Spec => []TilesInv BY TilesStart, TilesStay, <1>2, <1>3, <1>4, <1>6, PTL DEF Spec
<1>8. TilesInv => (OneWmsTile(config, request) => TilesShowTheirPlace) BY DEF TilesInv
<1> QED BY <1>7, <1>8, PTL

-----------------------------------------------------------------------------
(* The lists of the tiles of maps and of the maps.                          *)

(* In a strict order of finitely many things each rank is that of one.     *)
Ranks(S, R) == [s \in S |-> Cardinality({t \in S : <<t, s>> \in R})]
RanksAll(S, rank) ==
  /\ \A s \in S : rank[s] \in 0 .. Cardinality(S) - 1
  /\ \A s, t \in S : rank[s] = rank[t] => s = t
  /\ \A k \in 0 .. Cardinality(S) - 1 : \E s \in S : rank[s] = k

LEMMA EachHasItsRank ==
  ASSUME NEW S, IsFiniteSet(S), NEW R, \A s \in S : <<s, s>> \notin R,
         \A s, t, u \in S : <<s, t>> \in R /\ <<t, u>> \in R => <<s, u>> \in R,
         \A s, t \in S : s = t \/ <<s, t>> \in R \/ <<t, s>> \in R
  PROVE  RanksAll(S, Ranks(S, R))
<1> DEFINE C == Cardinality(S)
           Below(s) == {t \in S : <<t, s>> \in R}
           rank == [s \in S |-> Cardinality(Below(s))]
<1>1. C \in Nat BY FS_CardinalityType
<1>2. \A s \in S : IsFiniteSet(Below(s)) /\ rank[s] \in Nat /\ rank[s] < C
  <2> SUFFICES ASSUME NEW s \in S PROVE IsFiniteSet(Below(s)) /\ rank[s] \in Nat /\ rank[s] < C OBVIOUS
  <2>1. Below(s) \in SUBSET S /\ s \notin Below(s) OBVIOUS
  <2>2. rank[s] = Cardinality(Below(s)) OBVIOUS
  <2> HIDE DEF Below, rank
  <2>3. IsFiniteSet(Below(s)) /\ Cardinality(Below(s)) \in Nat /\ Cardinality(Below(s)) <= C /\ Cardinality(Below(s)) # C
    BY <2>1, FS_Subset, FS_CardinalityType
  <2> QED BY <1>1, <2>2, <2>3
<1>3. ASSUME NEW s \in S, NEW t \in S, <<s, t>> \in R PROVE rank[s] < rank[t]
  <2>1. Below(s) \in SUBSET Below(t) /\ s \in Below(t) /\ s \notin Below(s) BY <1>3
  <2>2. rank[s] = Cardinality(Below(s)) /\ rank[t] = Cardinality(Below(t)) OBVIOUS
  <2> HIDE DEF Below, rank
  <2>3. Cardinality(Below(s)) <= Cardinality(Below(t)) /\ Cardinality(Below(s)) # Cardinality(Below(t))
    BY <1>2, <2>1, FS_Subset
  <2>4. rank[s] \in Nat /\ rank[t] \in Nat BY <1>2
  <2> QED BY <2>2, <2>3, <2>4
<1>4. \A s, t \in S : rank[s] = rank[t] => s = t
  <2> SUFFICES ASSUME NEW s \in S, NEW t \in S, rank[s] = rank[t] PROVE s = t OBVIOUS
  <2>1. rank[s] \in Nat /\ rank[t] \in Nat BY <1>2
  <2>2. s = t \/ <<s, t>> \in R \/ <<t, s>> \in R OBVIOUS
  <2> HIDE DEF rank
  <2>3. s = t \/ rank[s] < rank[t] \/ rank[t] < rank[s] BY <1>3, <2>2
  <2> QED BY <2>1, <2>3
<1>5. rank \in Injection(S, 0 .. C - 1)
  <2>1. DOMAIN rank = S OBVIOUS
  <2>2. rank = [s \in S |-> rank[s]] OBVIOUS
  <2>3. \A s \in S : rank[s] \in 0 .. C - 1
    <3> SUFFICES ASSUME NEW s \in S PROVE rank[s] \in 0 .. C - 1 OBVIOUS
    <3>1. rank[s] \in Nat /\ rank[s] < C BY <1>2
    <3> HIDE DEF rank, C
    <3> QED BY <1>1, <3>1
  <2> HIDE DEF rank
  <2>4. rank \in [S -> 0 .. C - 1] BY <2>2, <2>3
  <2> QED BY <1>4, <2>4, Zenon DEF Injection, IsInjective
<1>6. IsFiniteSet(0 .. C - 1) /\ Cardinality(0 .. C - 1) = C
  <2>1. 0 \in Int /\ C - 1 \in Int /\ (C - 1) - 0 + 1 = C /\ (0 > C - 1 => C = 0) BY <1>1
  <2> QED BY <2>1, FS_Interval
<1> HIDE DEF rank
<1>7. rank \in Surjection(S, 0 .. C - 1) BY <1>5, <1>6, FS_Injection
<1>8. \A k \in 0 .. C - 1 : \E s \in S : rank[s] = k BY <1>7 DEF Surjection
<1>9. \A s \in S : rank[s] \in 0 .. C - 1 BY <1>5 DEF Injection
<1>10. RanksAll(S, rank) BY <1>4, <1>8, <1>9, Zenon DEF RanksAll
<1> QED BY <1>10, Zenon DEF rank, Ranks

(* The places of a rectangle of tiles are finitely many.                   *)
LEMMA FiniteRectangle ==
  ASSUME NEW b, b.minx \in Int, b.maxx \in Int, b.miny \in Int, b.maxy \in Int, NEW z
  PROVE  IsFiniteSet(TilesIn(b, z))
<1> DEFINE T == (b.minx .. b.maxx) \X (b.miny .. b.maxy)
           f == [t \in TilesIn(b, z) |-> <<t.x, t.y>>]
<1>1. IsFiniteSet(T)
  <2>1. IsFiniteSet(b.minx .. b.maxx) /\ IsFiniteSet(b.miny .. b.maxy) BY FS_Interval
  <2> QED BY <2>1, FS_Product
<1>2. f \in Injection(TilesIn(b, z), T)
  <2>1. f \in [TilesIn(b, z) -> T] BY DEF TilesIn
  <2>2. \A s, t \in TilesIn(b, z) : s.x = t.x /\ s.y = t.y => s = t BY DEF TilesIn
  <2>3. \A s, t \in TilesIn(b, z) : f[s] = f[t] => s = t BY <2>2
  <2> HIDE DEF f, T
  <2> QED BY <2>1, <2>3, Zenon DEF Injection, IsInjective
<1> HIDE DEF f, T
<1> QED BY <1>1, <1>2, FS_Injection

(* The list of the tiles of a map has each of them, and no other.          *)
Lists(list, S) ==
  /\ DOMAIN list = 1 .. Cardinality(S) /\ Cardinality(S) \in Nat
  /\ \A n \in DOMAIN list : list[n] \in S
  /\ \A s \in S : \E n \in DOMAIN list : list[n] = s

LEMMA ListedByColumns ==
  ASSUME NEW b, b.minx \in Int, b.maxx \in Int, b.miny \in Int, b.maxy \in Int, NEW z, NEW S, S = TilesIn(b, z)
  PROVE  Lists(InOrder(S, ColumnFirst), S)
<1> DEFINE R == {p \in S \X S : ColumnFirst(p[1], p[2])}
           C == Cardinality(S)
           list == InOrder(S, ColumnFirst)
           rank == Ranks(S, R)
<1>1. IsFiniteSet(S) /\ C \in Nat BY FiniteRectangle, FS_CardinalityType
<1>2. \A s \in S : s.x \in Int /\ s.y \in Int BY DEF TilesIn
<1>3. \A s, t \in S : s.x = t.x /\ s.y = t.y => s = t BY DEF TilesIn
<1>4. \A s, t \in S : <<s, t>> \in R <=> ColumnFirst(s, t) OBVIOUS
<1>5. list = [n \in 1 .. C |-> CHOOSE s \in S : Cardinality({t \in S : ColumnFirst(t, s)}) = n - 1]
  BY DEF InOrder, Tabled
<1> HIDE DEF R, list
<1>6. /\ \A s \in S : rank[s] \in 0 .. C - 1
      /\ \A s, t \in S : rank[s] = rank[t] => s = t
      /\ \A k \in 0 .. C - 1 : \E s \in S : rank[s] = k
  <2>1. \A s \in S : <<s, s>> \notin R BY <1>2, <1>4 DEF ColumnFirst
  <2>2. \A s, t, u \in S : <<s, t>> \in R /\ <<t, u>> \in R => <<s, u>> \in R BY <1>2, <1>4 DEF ColumnFirst
  <2>3. \A s, t \in S : s = t \/ <<s, t>> \in R \/ <<t, s>> \in R
    <3> SUFFICES ASSUME NEW s \in S, NEW t \in S PROVE s = t \/ ColumnFirst(s, t) \/ ColumnFirst(t, s) BY <1>4
    <3>1. s.x \in Int /\ s.y \in Int /\ t.x \in Int /\ t.y \in Int BY <1>2
    <3>2. s.x = t.x /\ s.y = t.y => s = t BY <1>3
    <3> QED BY <3>1, <3>2 DEF ColumnFirst
  <2>4. RanksAll(S, rank) BY <1>1, <2>1, <2>2, <2>3, EachHasItsRank
  <2> HIDE DEF rank
  <2> QED BY <2>4, Zenon DEF RanksAll
<1>7. \A s \in S : Cardinality({t \in S : ColumnFirst(t, s)}) = rank[s]
  <2> SUFFICES ASSUME NEW s \in S PROVE Cardinality({t \in S : ColumnFirst(t, s)}) = rank[s] OBVIOUS
  <2>1. {t \in S : ColumnFirst(t, s)} = {t \in S : <<t, s>> \in R} BY <1>4
  <2> QED BY <2>1 DEF Ranks
<1> HIDE DEF rank
<1>8. \A n \in 1 .. C : \A s \in S : Cardinality({t \in S : ColumnFirst(t, s)}) = n - 1 <=> rank[s] = n - 1 BY <1>7
<1>9. \A n \in 1 .. C : list[n] \in S /\ rank[list[n]] = n - 1
  <2> SUFFICES ASSUME NEW n \in 1 .. C PROVE list[n] \in S /\ rank[list[n]] = n - 1 OBVIOUS
  <2>1. list[n] = CHOOSE s \in S : Cardinality({t \in S : ColumnFirst(t, s)}) = n - 1 BY <1>5
  <2>2. n - 1 \in 0 .. C - 1 BY <1>1
  <2>3. PICK s \in S : rank[s] = n - 1 BY <1>6, <2>2, Zenon
  <2>5. Cardinality({t \in S : ColumnFirst(t, s)}) = n - 1 BY <1>7, <2>3
  <2>4. list[n] \in S /\ Cardinality({t \in S : ColumnFirst(t, list[n])}) = n - 1 BY <2>1, <2>5, Zenon
  <2> QED BY <1>7, <2>4
<1>10. \A s \in S : \E n \in 1 .. C : list[n] = s
  <2> SUFFICES ASSUME NEW s \in S PROVE \E n \in 1 .. C : list[n] = s OBVIOUS
  <2>1. rank[s] \in 0 .. C - 1 BY <1>6
  <2>2. rank[s] + 1 \in 1 .. C /\ (rank[s] + 1) - 1 = rank[s] BY <1>1, <2>1
  <2>3. list[rank[s] + 1] = s BY <1>6, <1>9, <2>2
  <2> QED BY <2>2, <2>3
<1>11. DOMAIN list = 1 .. C BY <1>5
<1>12. Lists(list, S) BY <1>1, <1>9, <1>10, <1>11 DEF Lists
<1> QED BY <1>12 DEF list

(* Of one list, one image, one map.                                        *)
LEMMA OneList == ASSUME NEW s PROVE Seqs!FlattenSeq([n \in {1} |-> s]) = s
<1> DEFINE list == [n \in {1} |-> s]
           first == [i \in 1 .. Len(list) |-> s]
           Is(f) == f = [i \in 1 .. Len(list) |-> IF i = 1 THEN list[i] ELSE f[i - 1] \o list[i]]
<1>1. list = <<s>> OBVIOUS
<1>2. Len(list) = 1 /\ list[1] = s BY <1>1
<1> HIDE DEF list
<1>3. Seqs!FlattenSeq(list) = IF Len(list) = 0 THEN list ELSE (CHOOSE f : Is(f))[Len(list)]
  BY Zenon DEF Seqs!FlattenSeq
<1>4. Is(first)
  <2>1. \A i \in 1 .. Len(list) : i = 1 BY <1>2
  <2> QED BY <1>2, <2>1
<1>5. Is(CHOOSE f : Is(f)) BY <1>4, Zenon
<1> DEFINE chosen == CHOOSE f : Is(f)
<1>6. chosen = [i \in 1 .. Len(list) |-> IF i = 1 THEN list[i] ELSE chosen[i - 1] \o list[i]] BY <1>5
<1>7. Seqs!FlattenSeq(list) = IF Len(list) = 0 THEN list ELSE chosen[Len(list)] BY <1>3
<1> HIDE DEF chosen
<1>8. 1 \in 1 .. Len(list) BY <1>2
<1>9. chosen[1] = s BY <1>2, <1>6, <1>8
<1>10. Seqs!FlattenSeq(list) = chosen[1] BY <1>2, <1>7
<1>11. Seqs!FlattenSeq(list) = s BY <1>9, <1>10
<1> QED BY <1>11, Zenon DEF list

LEMMA NothingSummed == ASSUME NEW lists PROVE Before(lists, 1) = 0
<1>1. DOMAIN [k \in 1 .. 1 - 1 |-> k] = {} OBVIOUS
<1> QED BY <1>1 DEF Before, Seqs!FoldLeft, Seqs!MapThenFoldSet

LEMMA OneImage == ASSUME NEW image PROVE MergeAll([n \in {1} |-> image]) = image
<1> DEFINE list == [n \in {1} |-> image]
<1>1. list = <<image>> OBVIOUS
<1>2. Head(list) = image /\ Tail(list) = << >>
  <2>1. list \in Seq({image}) BY <1>1
  <2>2. Len(list) = 1 /\ list[1] = image BY <1>1
  <2>3. list # << >> BY <2>2, EmptySeq
  <2> HIDE DEF list
  <2>4. Tail(list) \in Seq({image}) /\ Len(Tail(list)) = 0 BY <2>1, <2>2, <2>3, HeadTailProperties
  <2>5. Tail(list) = << >> BY <2>4, EmptySeq
  <2>6. Head(list) = list[1] BY <2>1, <2>3
  <2> QED BY <2>2, <2>5, <2>6
<1>3. DOMAIN << >> = {} OBVIOUS
<1> HIDE DEF list
<1>4. MergeAll(list) = image BY <1>2, <1>3 DEF MergeAll, Seqs!FoldLeft, Seqs!MapThenFoldSet
<1> QED BY <1>4, Zenon DEF list

LEMMA OneNumber == InOrder({1}, <) = [n \in {1} |-> 1]
<1>1. Cardinality({1}) = 1 /\ Cardinality({}) = 0 BY FS_Singleton, FS_EmptySet
<1>2. {t \in {1} : t < 1} = {} OBVIOUS
<1>3. \A s \in {1} : Cardinality({t \in {1} : t < s}) = 1 - 1 BY <1>1, <1>2
<1>4. (CHOOSE s \in {1} : Cardinality({t \in {1} : t < s}) = 1 - 1) = 1
  <2>1. \E s \in {1} : Cardinality({t \in {1} : t < s}) = 1 - 1 BY <1>3, Zenon
  <2>2. (CHOOSE s \in {1} : Cardinality({t \in {1} : t < s}) = 1 - 1) \in {1} BY <2>1, Zenon
  <2> QED BY <2>2
<1>5. 1 .. Cardinality({1}) = {1} BY <1>1
<1>6. InOrder({1}, <)
        = [n \in 1 .. Cardinality({1}) |-> CHOOSE s \in {1} : Cardinality({t \in {1} : t < s}) = n - 1]
  BY DEF InOrder, Tabled
<1>7. \A n \in {1} : (CHOOSE s \in {1} : Cardinality({t \in {1} : t < s}) = n - 1) = 1 BY <1>4
<1> QED BY <1>5, <1>6, <1>7

LEMMA NoNumber == InOrder({}, <) = << >>
<1> DEFINE none == [n \in 1 .. 0 |-> CHOOSE s \in {} : Cardinality({t \in {} : t < s}) = n - 1]
<1>1. Cardinality({}) = 0 BY FS_EmptySet
<1>2. InOrder({}, <)
        = [n \in 1 .. Cardinality({}) |-> CHOOSE s \in {} : Cardinality({t \in {} : t < s}) = n - 1]
  BY DEF InOrder, Tabled
<1>3. none = << >> OBVIOUS
<1> HIDE DEF none
<1> QED BY <1>1, <1>2, <1>3 DEF none

-----------------------------------------------------------------------------
(* The tiles of one map.                                                    *)

(* What is wanted for a map that tiles make are its tiles.                 *)
OneMapWanted(d, r, parsed, map) ==
  /\ d \in DOMAIN Documents /\ Site[d] # {} /\ r \in DOMAIN Requests
  /\ ~Failed(Handled(d, r).parsed) /\ parsed = Handled(d, r).parsed.value
  /\ parsed.type = "GET_MAP" /\ parsed.strategy = "assemble" /\ DOMAIN parsed.maps = {1} /\ map = parsed.maps[1]

Wants(d, r, tiles) ==
  DOMAIN Handled(d, r).wants = DOMAIN tiles /\ \A n \in DOMAIN tiles : Handled(d, r).wants[n].tile = tiles[n]

LEMMA WantsOfMap ==
  ASSUME NEW d, NEW r, NEW parsed, NEW map, OneMapWanted(d, r, parsed, map)
  PROVE  MapTiles(parsed.maps) = [n \in {1} |-> TilesOfMap(map)] /\ Wants(d, r, TilesOfMap(map))
<1> DEFINE site == TheOne(Site[d])
           handling == Handled(d, r)
           tiles == TilesOfMap(map)
<1>0. /\ d \in DOMAIN Documents /\ Site[d] # {} /\ r \in DOMAIN Requests
      /\ ~Failed(Handled(d, r).parsed) /\ parsed = Handled(d, r).parsed.value
      /\ parsed.type = "GET_MAP" /\ parsed.strategy = "assemble" /\ DOMAIN parsed.maps = {1} /\ map = parsed.maps[1]
  BY Zenon DEF OneMapWanted
<1>1. site \in Site[d]
  <2>1. \E s : s \in Site[d] BY <1>0
  <2> QED BY <2>1, Zenon DEF TheOne
<1>2. Site[d] = SiteOf(Documents[d], Requests) BY <1>0, ServerAssumption
<1>3. PICK c \in Load(Documents[d]) :
        site = [cfg |-> c, handling |-> Tabled([q \in DOMAIN Requests |-> Handling(c, Requests[q])])]
  <2> HIDE DEF site
  <2> QED BY <1>1, <1>2, Zenon DEF SiteOf
<1>4. handling = Handling(c, Requests[r])
  <2>1. handling = site.handling[r] BY DEF Handled
  <2> HIDE DEF site, handling
  <2> QED BY <1>0, <1>3, <2>1 DEF Tabled
<1> DEFINE asked == Dispatch(c, Requests[r]).parsed
           fetched == TilesToFetch(asked.value)
<1>5. handling.parsed = asked /\ (Failed(asked) \/ handling.wants = [m \in DOMAIN fetched |-> Wanted(c, fetched[m])])
  <2> HIDE DEF handling
  <2> QED BY <1>4 DEF Handling, Tabled
<1>6. ~Failed(asked) /\ asked.value = parsed BY <1>0, <1>5
<1>7. MapTiles(parsed.maps) = [n \in {1} |-> tiles] BY <1>0 DEF MapTiles
<1>8. TilesToFetch(parsed) = Seqs!FlattenSeq(MapTiles(parsed.maps)) BY <1>0 DEF TilesToFetch
<1> HIDE DEF asked, tiles
<1>9. fetched = tiles BY <1>6, <1>7, <1>8, OneList
<1> HIDE DEF handling, fetched
<1>10. handling.wants = [m \in DOMAIN tiles |-> Wanted(c, tiles[m])] BY <1>5, <1>6, <1>9
<1>11. \A n \in DOMAIN tiles : Wanted(c, tiles[n]).tile = tiles[n] BY DEF Wanted
<1>12. DOMAIN handling.wants = DOMAIN tiles /\ \A n \in DOMAIN tiles : handling.wants[n].tile = tiles[n]
  BY <1>10, <1>11
<1>13. Wants(d, r, tiles) BY <1>12, Zenon DEF handling, Wants
<1> QED BY <1>7, <1>13 DEF tiles

(* The tiles of a map are those at its places.                             *)
AreTilesAt(tiles, map, places, z) ==
  /\ DOMAIN tiles = 1 .. Cardinality(places) /\ Cardinality(places) \in Nat
  /\ \A n \in DOMAIN tiles :
       /\ tiles[n].tileset = map.tileset /\ tiles[n].grid_link = map.grid_link
       /\ tiles[n].dimensions = map.dimensions /\ tiles[n].z = z
       /\ [x |-> tiles[n].x, y |-> tiles[n].y, z |-> tiles[n].z] \in places
  /\ \A s \in places : \E n \in DOMAIN tiles : tiles[n].x = s.x /\ tiles[n].y = s.y

LEMMA TilesOfOneMap ==
  ASSUME NEW map, NEW b, b.minx \in Int, b.maxx \in Int, b.miny \in Int, b.maxy \in Int, NEW z, NEW places,
         places = GetMapTiles(map.grid_link, map.extent, map.w, map.h), places = TilesIn(b, z)
  PROVE  AreTilesAt(TilesOfMap(map), map, places, z)
<1> DEFINE list == InOrder(places, ColumnFirst)
           tiles == TilesOfMap(map)
<1>1. /\ DOMAIN list = 1 .. Cardinality(places) /\ Cardinality(places) \in Nat
      /\ \A n \in DOMAIN list : list[n] \in places
      /\ \A s \in places : \E n \in DOMAIN list : list[n] = s
  <2>1. Lists(list, places) BY ListedByColumns
  <2> HIDE DEF list
  <2> QED BY <2>1 DEF Lists
<1>2. tiles = [n \in DOMAIN list |->
                 [Tile(map.tileset, map.grid_link, list[n].x, list[n].y, list[n].z) EXCEPT !.dimensions = map.dimensions]]
  BY Zenon DEF TilesOfMap
<1> HIDE DEF list, tiles
<1>3. DOMAIN tiles = DOMAIN list BY <1>2
<1>4. \A n \in DOMAIN tiles :
        /\ tiles[n].tileset = map.tileset /\ tiles[n].grid_link = map.grid_link
        /\ tiles[n].dimensions = map.dimensions
        /\ tiles[n].x = list[n].x /\ tiles[n].y = list[n].y /\ tiles[n].z = list[n].z
  BY <1>2 DEF Tile
<1>5. \A s \in places : s.z = z /\ [x |-> s.x, y |-> s.y, z |-> s.z] = s BY DEF TilesIn
<1>6. \A n \in DOMAIN tiles : /\ tiles[n].z = z
                              /\ [x |-> tiles[n].x, y |-> tiles[n].y, z |-> tiles[n].z] \in places
  BY <1>1, <1>3, <1>4, <1>5
<1>7. \A s \in places : \E n \in DOMAIN tiles : tiles[n].x = s.x /\ tiles[n].y = s.y BY <1>1, <1>3, <1>4
<1>8. AreTilesAt(tiles, map, places, z)
  <2>1. DOMAIN tiles = 1 .. Cardinality(places) /\ Cardinality(places) \in Nat BY <1>1, <1>3
  <2> QED BY <2>1, <1>4, <1>6, <1>7, Zenon DEF AreTilesAt
<1> QED BY <1>8 DEF tiles

(* The answer with one map is the one that its tiles make.                 *)
LEMMA OneMapAnswer ==
  ASSUME NEW parsed, NEW tiles, NEW list, MapTiles(parsed.maps) = [n \in {1} |-> list],
         \A n \in DOMAIN list : n \in Nat, ~Failed(AssembleAnswer(parsed, tiles))
  PROVE  LET map == parsed.maps[1]
             made == Assemble(map.grid_link.grid, map.extent, map.w, map.h, OutcomesOf(list, tiles, 0), parsed.resample)
         IN  /\ ~Failed(made) /\ \E t \in OutcomesOf(list, tiles, 0) : ~t.nodata
             /\ ~Failed(Write(parsed.format, made.value))
             /\ AssembleAnswer(parsed, tiles).value.data = Write(parsed.format, made.value).value
<1> DEFINE map == parsed.maps[1]
           outcomes == OutcomesOf(list, tiles, 0)
           made == Assemble(map.grid_link.grid, map.extent, map.w, map.h, outcomes, parsed.resample)
           maptiles == MapTiles(parsed.maps)
           maps == Tabled(FetchedMaps(parsed, maptiles, tiles))
           with == WithData(maps)
           expires == SoonestOf(parsed, with)
           merged == MergeAll([n \in DOMAIN with |-> TheOne(maps[with[n]])])
           data == Write(parsed.format, made.value)
           answer == AssembleAnswer(parsed, tiles)
<1>1. answer = MapsAnswer(parsed, maps, with) BY Zenon DEF AssembleAnswer, MergedAnswer
<1>2. answer = IF \E n \in DOMAIN maps : \E m \in maps[n] : Failed(m) THEN Bad(500)
                                       ELSE IF with = << >> THEN Bad(404)
                                       ELSE IF Failed(merged) THEN Bad(500) ELSE MapAnswer(parsed, merged.value, expires)
  <2> HIDE DEF maps, with, expires
  <2> QED BY <1>1, Zenon DEF MapsAnswer, expires
<1>3. Failed(Bad(500)) /\ Failed(Bad(404)) /\ ~Failed(answer) BY BadFails
<1>4. maps = [n \in {1} |-> AssembledMap(map, outcomes, parsed.resample)]
  <2>1. DOMAIN maptiles = {1} /\ maptiles[1] = list OBVIOUS
  <2>2. Before(maptiles, 1) = 0 BY NothingSummed
  <2>3. maps = [n \in DOMAIN maptiles |->
                  AssembledMap(parsed.maps[n], OutcomesOf(maptiles[n], tiles, Before(maptiles, n)), parsed.resample)]
    BY DEF FetchedMaps, Tabled
  <2> HIDE DEF maptiles, maps, outcomes
  <2>4. \A n \in {1} : AssembledMap(parsed.maps[n], OutcomesOf(maptiles[n], tiles, Before(maptiles, n)), parsed.resample)
                         = AssembledMap(map, OutcomesOf(list, tiles, 0), parsed.resample)
    BY <2>1, <2>2
  <2> QED BY <2>1, <2>3, <2>4 DEF outcomes
<1> HIDE DEF maps, outcomes, made
<1>5. AssembledMap(map, outcomes, parsed.resample) = IF \A t \in outcomes : t.nodata THEN {} ELSE {made}
  BY Zenon DEF AssembledMap, made
<1>6. CASE \A t \in outcomes : t.nodata
  <2>1. DOMAIN maps = {1} /\ maps[1] = {} BY <1>4, <1>5, <1>6
  <2>2. {n \in DOMAIN maps : maps[n] # {}} = {} BY <2>1
  <2>3. with = << >> BY <2>2, NoNumber DEF WithData
  <2>4. answer \in {Bad(500), Bad(404)} BY <1>1, <2>3, Zenon DEF MapsAnswer
  <2> HIDE DEF answer
  <2> QED BY <1>3, <2>4
<1>7. CASE \E t \in outcomes : ~t.nodata
  <2>1. DOMAIN maps = {1} /\ maps[1] = {made} BY <1>4, <1>5, <1>7
  <2>2. {n \in DOMAIN maps : maps[n] # {}} = {1} BY <2>1
  <2>3. with = [n \in {1} |-> 1] BY <2>2, OneNumber DEF WithData
  <2> HIDE DEF with
  <2>4. [n \in DOMAIN with |-> TheOne(maps[with[n]])] = [n \in {1} |-> made]
    <3>1. TheOne({made}) = made BY DEF TheOne
    <3>2. \A n \in DOMAIN with : TheOne(maps[with[n]]) = made BY <2>1, <2>3, <3>1
    <3> QED BY <2>3, <3>2
  <2>5. merged = made BY <2>4, OneImage
  <2> HIDE DEF merged, expires, answer
  <2>6. ~(\E n \in DOMAIN maps : \E m \in maps[n] : Failed(m)) /\ answer = MapAnswer(parsed, made.value, expires)
    BY <1>2, <1>3, <2>5, Zenon
  <2>7. ~Failed(made) BY <2>1, <2>6
  <2> DEFINE sent == Answer(data.value, ContentType(parsed.format, data.value), expires)
  <2>8. answer = IF Failed(data) THEN data ELSE Good(sent) BY <2>6, Zenon DEF MapAnswer
  <2>9. sent.data = data.value BY DEF Answer
  <2> HIDE DEF data, sent
  <2>10. ~Failed(data) /\ answer = Good(sent) BY <1>3, <2>8, Zenon
  <2>11. answer.value = sent BY <2>10 DEF Good
  <2> QED BY <1>7, <2>7, <2>9, <2>10, <2>11 DEF data, made, outcomes, answer
<1> QED BY <1>6, <1>7

-----------------------------------------------------------------------------
(* Maps show the world.                                                     *)

WorldOn(image, meaning) ==
  \A s \in DOMAIN image.px :
    LET here == PixelAt(meaning.at, image.w, image.h, s[1], s[2])
    IN  /\ Covers(meaning.covered, here, meaning.slack) => image.px[s].shows # {}
        /\ \A piece \in image.px[s].shows : piece.of = meaning.of /\ Near(piece.at, here, meaning.slack)

LEMMA OfRange == ASSUME NEW c \in Nat, NEW n \in 1 .. c PROVE 0 + n = n
OBVIOUS

(* When the tiles of such a map are there and can be read, they are all of *)
(* those at its places, and each shows its own.                            *)
LEMMA OutcomesShow ==
  ASSUME KeysApart(Documents), KeptInv, CameInv, FetchedAll, OneWmsMap(config, request),
         Now.parsed.value.strategy = "assemble", NEW map, map = Now.parsed.value.maps[1],
         NEW places, NEW b, NEW z, IsRectangle(b), places = TilesIn(b, z),
         places = GetMapTiles(map.grid_link, map.extent, map.w, map.h),
         NEW outcomes, outcomes = OutcomesOf(TilesOfMap(map), got, 0),
         \A t \in outcomes : ~t.nodata => IsValidFormat(t.data)
  PROVE  AllOf(places, outcomes) /\ ShowTheirPlace(outcomes, Meant.of, map.grid_link.grid, z)
<1> DEFINE list == TilesOfMap(map)
           source == Cfg(config).sources[map.tileset.source]
           asked == <<LayersOf(source, map), Dims(map)>>
           g == map.grid_link.grid
<1>1. config \in DOMAIN Documents /\ Site[config] # {} /\ request \in DOMAIN Requests /\ pc \in {"fetch", "rest"}
  BY DEF KeptInv, Working, Requested, Documented, FetchedAll
<1>2. /\ ~Failed(Now.parsed) /\ Now.parsed.value.type = "GET_MAP" /\ DOMAIN Now.parsed.value.maps = {1}
      /\ map.tileset.source # None /\ source.type = "wms" /\ Meant.of = asked
  BY DEF OneWmsMap, Now, Meant
<1>3. map.tileset.format # None /\ map.tileset.watermark = None
  <2>1. TilesFit(map, Meant) BY Zenon DEF OneWmsMap, Now, Meant
  <2> QED BY <2>1, Zenon DEF TilesFit
<1>4. DOMAIN Now.wants = DOMAIN list /\ \A n \in DOMAIN list : Now.wants[n].tile = list[n]
  <2> DEFINE parsed == Now.parsed.value
  <2>1. ~Failed(Handled(config, request).parsed) /\ parsed = Handled(config, request).parsed.value
        /\ parsed.type = "GET_MAP" /\ parsed.strategy = "assemble" /\ DOMAIN parsed.maps = {1} /\ map = parsed.maps[1]
    BY <1>2 DEF Now
  <2> HIDE DEF parsed
  <2>2. OneMapWanted(config, request, parsed, map) BY <1>1, <2>1, Zenon DEF OneMapWanted
  <2>3. Wants(config, request, TilesOfMap(map)) BY <2>2, WantsOfMap
  <2> QED BY <2>3, Zenon DEF Now, Wants
<1>5. AreTilesAt(list, map, places, z)
  <2>1. b.minx \in Int /\ b.maxx \in Int /\ b.miny \in Int /\ b.maxy \in Int BY DEF IsRectangle
  <2> QED BY <2>1, TilesOfOneMap
<1>6. DOMAIN list \subseteq DOMAIN got
  <2>1. DOMAIN Tiles = DOMAIN list BY <1>4 DEF Tiles
  <2>2. DOMAIN Tiles \ DOMAIN got = {} BY DEF FetchedAll, Rest
  <2> QED BY <2>1, <2>2
<1> DEFINE o(n) == [x |-> list[n].x, y |-> list[n].y, z |-> list[n].z, nodata |-> got[n].nodata, data |-> got[n].data]
<1>7. outcomes = {o(n) : n \in DOMAIN list}
  <2>1. outcomes = {[x |-> list[n].x, y |-> list[n].y, z |-> list[n].z, nodata |-> got[0 + n].nodata,
                     data |-> got[0 + n].data] : n \in DOMAIN list}
    BY Zenon DEF OutcomesOf
  <2> HIDE DEF list
  <2>0. DOMAIN list = 1 .. Cardinality(places) /\ Cardinality(places) \in Nat BY <1>5, Zenon DEF AreTilesAt
  <2>3. \A n \in DOMAIN list : 0 + n = n
    <3> SUFFICES ASSUME NEW n \in DOMAIN list PROVE 0 + n = n OBVIOUS
    <3>1. n \in 1 .. Cardinality(places) BY <2>0, Zenon
    <3> QED BY <2>0, <3>1, OfRange, Zenon
  <2> QED BY <2>1, <2>3
<1> HIDE DEF list
<1>8. ASSUME NEW n \in DOMAIN list
      PROVE  ~got[n].nodata /\ ShowsTile(got[n].data, asked, g, [x |-> list[n].x, y |-> list[n].y, z |-> z])
  <2> DEFINE t == list[n]
  <2>1. t = Tiles[n] BY <1>4, <1>8 DEF Tiles
  <2>2. n \in DOMAIN got BY <1>6, <1>8
  <2>3. /\ t.tileset = map.tileset /\ t.grid_link = map.grid_link /\ t.dimensions = map.dimensions /\ t.z = z
    BY <1>5, <1>8 DEF AreTilesAt
  <2>4. Came(n) BY <2>2 DEF CameInv
  <2>5. ~got[n].nodata
    <3>1. got[n].how = "no source" => Tiles[n].tileset.source = None
      BY <2>4 DEF Came, Hit, Nowhere, Waited, Rendered, Unfetched
    <3>2. got[n].how # "no source" BY <1>2, <2>1, <2>3, <3>1
    <3> QED BY <2>4, <3>2, Zenon DEF Came
  <2>6. IsValidFormat(got[n].data)
    <3>1. o(n) \in outcomes BY <1>7, <1>8
    <3>2. o(n).nodata = got[n].nodata /\ o(n).data = got[n].data OBVIOUS
    <3> HIDE DEF o
    <3> QED BY <2>5, <3>1, <3>2
  <2>7. got[n].data # NoData
    <3>1. ~IsValidFormat(NoData) BY DEF IsValidFormat, HeaderSniff, NoData, Encoded
    <3> QED BY <2>6, <3>1
  <2> HIDE DEF t, o
  <2>8. ShowsTile(got[n].data, <<LayersOf(Cfg(config).sources[t.tileset.source], t), Dims(t)>>, t.grid_link.grid, t)
    BY <1>1, <1>2, <1>3, <2>1, <2>2, <2>3, <2>7, GotShowsTile
  <2>9. LayersOf(Cfg(config).sources[t.tileset.source], t) = LayersOf(source, map) /\ Dims(t) = Dims(map)
    <3>1. LayersOf(Cfg(config).sources[t.tileset.source], t) = LayersOf(source, map) BY <2>3 DEF LayersOf
    <3>2. Dims(t) = Dims(map) BY <2>3 DEF Dims
    <3> QED BY <3>1, <3>2
  <2>10. t.grid_link.grid = g BY <2>3
  <2> DEFINE place == [x |-> t.x, y |-> t.y, z |-> z]
  <2>11. GetExtent(g, place.x, place.y, place.z) = GetExtent(g, t.x, t.y, t.z) BY <2>3
  <2> HIDE DEF place, g, source
  <2>12. ShowsTile(got[n].data, asked, g, t) BY <2>8, <2>9, <2>10, Zenon
  <2> HIDE DEF asked
  <2>13. ShowsTile(got[n].data, asked, g, place) BY <2>11, <2>12, Zenon DEF ShowsTile
  <2> QED BY <2>5, <2>13 DEF place, t
<1> HIDE DEF source, asked, g
<1>9. ASSUME NEW n \in DOMAIN list
      PROVE  /\ [x |-> o(n).x, y |-> o(n).y, z |-> o(n).z] \in places /\ ~o(n).nodata
             /\ ShowsTile(o(n).data, asked, g, [x |-> o(n).x, y |-> o(n).y, z |-> z])
  <2>1. o(n).x = list[n].x /\ o(n).y = list[n].y /\ o(n).z = list[n].z /\ o(n).nodata = got[n].nodata
        /\ o(n).data = got[n].data
    OBVIOUS
  <2>2. [x |-> list[n].x, y |-> list[n].y, z |-> list[n].z] \in places BY <1>5, <1>9, Zenon DEF AreTilesAt
  <2> HIDE DEF o
  <2>3. ~got[n].nodata /\ ShowsTile(got[n].data, asked, g, [x |-> list[n].x, y |-> list[n].y, z |-> z]) BY <1>8, <1>9
  <2> QED BY <2>1, <2>2, <2>3
<1>10. \A place \in places : \E t \in outcomes : t.x = place.x /\ t.y = place.y
  <2> SUFFICES ASSUME NEW place \in places PROVE \E t \in outcomes : t.x = place.x /\ t.y = place.y OBVIOUS
  <2>1. PICK n \in DOMAIN list : list[n].x = place.x /\ list[n].y = place.y BY <1>5, Zenon DEF AreTilesAt
  <2>2. o(n).x = list[n].x /\ o(n).y = list[n].y OBVIOUS
  <2>3. o(n) \in outcomes BY <1>7, <2>1
  <2> HIDE DEF o
  <2> QED BY <2>1, <2>2, <2>3
<1> HIDE DEF o
<1>11. ASSUME NEW t \in outcomes
       PROVE  /\ [x |-> t.x, y |-> t.y, z |-> t.z] \in places /\ ~t.nodata
              /\ ShowsTile(t.data, asked, g, [x |-> t.x, y |-> t.y, z |-> z])
  <2>1. PICK n \in DOMAIN list : t = o(n) BY <1>7
  <2> QED BY <1>9, <2>1, Zenon
<1>12. AllOf(places, outcomes) BY <1>10, <1>11, Zenon DEF AllOf
<1>13. ShowTheirPlace(outcomes, asked, g, z) BY <1>11, Zenon DEF ShowTheirPlace
<1> QED BY <1>2, <1>12, <1>13 DEF g, asked

LEMMA PlainWritten ==
  ASSUME NEW format, Writable(format), NEW w, NEW h, NEW px, \A s \in DOMAIN px : px[s] = Pixel(px[s].shows, px[s].alpha),
         ~Failed(Write(format, Plain(w, h, px)))
  PROVE  ShowsAs(Write(format, Plain(w, h, px)).value.image, w, h, px)
<1> DEFINE cfg == [caches |-> [it |-> [type |-> "disk"]]]
           t == [format |-> format, cache |-> "it"]
           image == Plain(w, h, px)
<1>1. WrittenAs(cfg, t, image) = Write(format, image)
  <2>1. cfg.caches[t.cache].type # "tiff" /\ t.format = format OBVIOUS
  <2> HIDE DEF cfg, t, image
  <2> QED BY <2>1 DEF WrittenAs
<1>2. t.format = format OBVIOUS
<1> HIDE DEF cfg, t
<1>3. Writable(t.format) /\ ~Failed(WrittenAs(cfg, t, Plain(w, h, px))) BY <1>1, <1>2
<1>4. ShowsAs(WrittenAs(cfg, t, Plain(w, h, px)).value.image, w, h, px) BY <1>3, WrittenShowsTheSame
<1> QED BY <1>1, <1>4

LEMMA WorldShown ==
  ASSUME NEW image, NEW px, NEW w, NEW h, NEW meaning, ShowsAs(image, w, h, px),
         ShowsWorld(px, meaning.of, meaning.at, w, h, meaning.covered, meaning.slack)
  PROVE  WorldOn(image, meaning)
<1>1. image.w = w /\ image.h = h /\ DOMAIN image.px = Spots(w, h)
  BY Zenon DEF ShowsAs, ShowsWorld
<1>2. ASSUME NEW s \in Spots(w, h), NEW here, here = PixelAt(meaning.at, w, h, s[1], s[2])
      PROVE  /\ Covers(meaning.covered, here, meaning.slack) => image.px[s].shows # {}
             /\ \A piece \in image.px[s].shows : piece.of = meaning.of /\ Near(piece.at, here, meaning.slack)
  <2>1. image.px[s].shows = px[s].shows
    <3>1. image.px[s] = Pixel(px[s].shows, image.px[s].alpha) BY Zenon DEF ShowsAs, ShowsWorld
    <3>2. \A shows, alpha : Pixel(shows, alpha).shows = shows BY DEF Pixel
    <3> QED BY <3>1, <3>2
  <2>2. OfMap(px[s], meaning.of, here, meaning.slack) /\ (Covers(meaning.covered, here, meaning.slack) => px[s].shows # {})
    BY <1>2, Zenon DEF ShowsWorld
  <2> QED BY <2>1, <2>2, Zenon DEF OfMap
<1> QED BY <1>1, <1>2, Zenon DEF WorldOn

(* What is known of a map of one WMS layer.                                *)
MapAsked(parsed, map) ==
  /\ parsed = Now.parsed.value /\ parsed.type = "GET_MAP" /\ DOMAIN parsed.maps = {1} /\ map = parsed.maps[1]
  /\ map.tileset.source # None /\ Cfg(config).sources[map.tileset.source].type = "wms"
  /\ Meant.of = <<LayersOf(Cfg(config).sources[map.tileset.source], map), Dims(map)>> /\ Meant.at = map.extent
  /\ IsMap(map.extent, map.w, map.h) /\ IsExtent(Meant.covered) /\ Meant.slack \in Nat
  /\ parsed.strategy = "assemble" => TilesFit(map, Meant)

LEMMA WhatMapIsAsked ==
  ASSUME OneWmsMap(config, request)
  PROVE  MapAsked(Now.parsed.value, Now.parsed.value.maps[1])
BY Zenon DEF OneWmsMap, MapAsked, IsMap, Now, Meant

(* A map without tiles has no data, and one with tiles that cannot be read *)
(* is not made.                                                            *)
LEMMA SomeTilesThere ==
  ASSUME NEW map, NEW tiles, OutcomesOf(TilesOfMap(map), tiles, 0) # {}
  PROVE  GetMapTiles(map.grid_link, map.extent, map.w, map.h) # {}
<1> DEFINE places == GetMapTiles(map.grid_link, map.extent, map.w, map.h)
           list == TilesOfMap(map)
<1> SUFFICES ASSUME places = {} PROVE FALSE OBVIOUS
<1>1. DOMAIN InOrder(places, ColumnFirst) = 1 .. Cardinality(places)
  <2> HIDE DEF places
  <2> QED BY DEF InOrder, Tabled
<1>2. DOMAIN list = DOMAIN InOrder(places, ColumnFirst)
  <2> DEFINE order == InOrder(places, ColumnFirst)
  <2>1. list = [n \in DOMAIN order |-> [Tile(map.tileset, map.grid_link, order[n].x, order[n].y, order[n].z)
                                          EXCEPT !.dimensions = map.dimensions]]
    BY Zenon DEF TilesOfMap
  <2> HIDE DEF order, list
  <2> QED BY <2>1 DEF order
<1> HIDE DEF places, list
<1>3. Cardinality(places) = 0 BY FS_EmptySet
<1>4. DOMAIN list = {} BY <1>1, <1>2, <1>3
<1>5. OutcomesOf(list, tiles, 0) = {} BY <1>4 DEF OutcomesOf
<1> QED BY <1>5 DEF list

LEMMA MadeOfReadable ==
  ASSUME NEW g, NEW bbox, NEW w, NEW h, NEW tiles, NEW mode, tiles # {}, ~Failed(Assemble(g, bbox, w, h, tiles, mode))
  PROVE  \A t \in tiles : ~t.nodata => IsValidFormat(t.data)
<1> DEFINE full == {t \in tiles : ~t.nodata}
           z == (CHOOSE t \in tiles : TRUE).z
           made == Assemble(g, bbox, w, h, tiles, mode)
<1>1. made = AssembleWithin(g, Bounds(tiles), z, bbox, w, h, full, mode) BY Zenon DEF Assemble
<1> HIDE DEF z, full
<1>2. (\E t \in full : ~IsValidFormat(t.data)) => made = Bad(500) BY <1>1, Zenon DEF AssembleWithin
<1>3. Failed(Bad(500)) BY BadFails
<1>4. \A t \in full : IsValidFormat(t.data) BY <1>2, <1>3
<1> QED BY <1>4, Zenon DEF full

LEMMA AssembledShows ==
  ASSUME KeysApart(Documents), KeptInv, CameInv, Parsed, FetchedAll, OneWmsMap(config, request), ~NoFormat,
         ~Failed(AssembleAnswer(Now.parsed.value, got))
  PROVE  WorldOn(AssembleAnswer(Now.parsed.value, got).value.data.image, Meant)
<1> DEFINE parsed == Now.parsed.value
           map == parsed.maps[1]
           link == map.grid_link
           g == link.grid
           bbox == map.extent
           w == map.w
           h == map.h
           z == ClosestLevel(link, ResolutionOf(bbox, w, h))
           l == link.grid_limits[z]
           places == GetMapTiles(link, bbox, w, h)
           b == MapBounds(link, bbox, z)
           outcomes == OutcomesOf(TilesOfMap(map), got, 0)
           made == Assemble(g, bbox, w, h, outcomes, parsed.resample)
           data == Write(parsed.format, made.value)
           answer == AssembleAnswer(parsed, got)
<1>1. /\ config \in DOMAIN Documents /\ Site[config] # {} /\ request \in DOMAIN Requests /\ pc \in {"fetch", "rest"}
      /\ ~Failed(Now.parsed)
  BY DEF KeptInv, Working, Requested, Documented, FetchedAll, Parsed, Answering
<1>2. /\ parsed.type = "GET_MAP" /\ DOMAIN parsed.maps = {1} /\ Meant.at = bbox /\ IsMap(bbox, w, h)
      /\ IsExtent(Meant.covered) /\ Meant.slack \in Nat /\ (parsed.strategy = "assemble" => TilesFit(map, Meant))
  <2>1. MapAsked(parsed, map) BY WhatMapIsAsked
  <2> HIDE DEF parsed, map
  <2> QED BY <2>1, Zenon DEF MapAsked
<1>3. parsed.strategy = "assemble"
  <2>1. Next1(parsed) = "fetch" BY <1>1 DEF Parsed, Answering
  <2> QED BY <1>2, <2>1 DEF Next1
<1>4. OneMapWanted(config, request, parsed, map)
  <2>1. parsed = Handled(config, request).parsed.value /\ ~Failed(Handled(config, request).parsed) BY <1>1 DEF Now
  <2>2. map = parsed.maps[1] OBVIOUS
  <2> HIDE DEF parsed, map
  <2> QED BY <1>1, <1>2, <1>3, <2>1, <2>2, Zenon DEF OneMapWanted
<1>5. MapTiles(parsed.maps) = [n \in {1} |-> TilesOfMap(map)] /\ Wants(config, request, TilesOfMap(map))
  <2> HIDE DEF parsed, map
  <2> QED BY <1>4, WantsOfMap
<1>6. \A n \in DOMAIN TilesOfMap(map) : n \in Nat
  <2>1. DOMAIN TilesOfMap(map) = DOMAIN Handled(config, request).wants BY <1>5, Zenon DEF Wants
  <2> HIDE DEF map
  <2> QED BY <1>1, <2>1, WhatIsWanted
<1>7. /\ ~Failed(made) /\ (\E t \in outcomes : ~t.nodata) /\ ~Failed(data) /\ answer.value.data = data.value
  <2>1. ~Failed(AssembleAnswer(parsed, got)) OBVIOUS
  <2> DEFINE list == TilesOfMap(map)
  <2>2. MapTiles(parsed.maps) = [n \in {1} |-> list] /\ \A n \in DOMAIN list : n \in Nat BY <1>5, <1>6
  <2> HIDE DEF parsed, list
  <2> QED BY <2>1, <2>2, OneMapAnswer DEF list
<1>8. TilesFit(map, Meant) BY <1>2, <1>3
<1>9. /\ IsGrid(g) /\ z \in DOMAIN g.levels
      /\ l.minx \in Nat /\ l.miny \in Nat /\ l.maxx \in Int /\ l.maxy \in Int
      /\ FineEnough(Resolution(g, z), HorizontalResolution(bbox, w), Meant.slack)
      /\ FineEnough(Resolution(g, z), VerticalResolution(bbox, h), Meant.slack)
      /\ Inside(Meant.covered, RegionOf(link, z))
  BY <1>8, Zenon DEF TilesFit, Inside
<1>10. IsExtent(bbox) BY <1>2, Zenon DEF IsMap
<1>11. places # {}
  <2>1. outcomes # {} BY <1>7
  <2> HIDE DEF map
  <2> QED BY <2>1, SomeTilesThere
<1>12. AreFine(Resolution(g, z), bbox, w, h, Meant.slack)
  <2> HIDE DEF g, z, bbox, w, h
  <2> QED BY <1>9, Zenon DEF AreFine, FineEnough
<1> HIDE DEF parsed, made, data, answer
<1> DEFINE covered == Meant.covered
           slack == Meant.slack
           mode == parsed.resample
<1>13. /\ map = Now.parsed.value.maps[1] /\ Now.parsed.value.strategy = "assemble" /\ parsed = Now.parsed.value
       /\ z = ClosestLevel(link, ResolutionOf(bbox, w, h)) /\ l = link.grid_limits[z] /\ b = MapBounds(link, bbox, z)
       /\ places = GetMapTiles(map.grid_link, map.extent, map.w, map.h)
       /\ outcomes = OutcomesOf(TilesOfMap(map), got, 0)
  BY <1>3 DEF parsed
<1> HIDE DEF z, l, b
<1>14. IsRectangle(b) /\ places = TilesIn(b, z)
  <2>1. l.minx \in Int /\ l.miny \in Int /\ l.maxx \in Int /\ l.maxy \in Int BY <1>9
  <2> HIDE DEF bbox, w, h, link
  <2> QED BY <1>9, <1>10, <1>11, <1>13, <2>1, RectangleOfTiles
<1>15. \A t \in outcomes : ~t.nodata => IsValidFormat(t.data)
  <2>1. outcomes # {} BY <1>7
  <2>2. ~Failed(Assemble(g, bbox, w, h, outcomes, mode)) BY <1>7 DEF made
  <2> HIDE DEF outcomes, g, bbox, w, h, mode
  <2> QED BY <2>1, <2>2, MadeOfReadable
<1> HIDE DEF places, outcomes
<1>16. AllOf(places, outcomes) /\ ShowTheirPlace(outcomes, Meant.of, g, z)
  <2> HIDE DEF map
  <2> QED BY <1>13, <1>14, <1>15, OutcomesShow
<1>17. MapShows(Assemble(g, bbox, w, h, outcomes, mode), Meant.of, bbox, w, h, covered, slack)
  <2>1. IsExtent(covered) /\ slack \in Nat /\ Inside(covered, RegionOf(link, z)) /\ AreFine(Resolution(link.grid, z), bbox, w, h, slack)
    BY <1>2, <1>9, <1>12
  <2>2. GetMapTiles(link, bbox, w, h) # {} /\ AllOf(GetMapTiles(link, bbox, w, h), outcomes)
        /\ ShowTheirPlace(outcomes, Meant.of, link.grid, z)
    BY <1>11, <1>16 DEF places
  <2>3. IsGrid(link.grid) /\ z \in DOMAIN link.grid.levels /\ l.minx \in Nat /\ l.miny \in Nat /\ l.maxx \in Int /\ l.maxy \in Int
    BY <1>9
  <2> HIDE DEF covered, slack, mode, bbox, w, h, link
  <2> QED BY <1>2, <1>13, <2>1, <2>2, <2>3, MapsOfTilesShowTheWorld
<1>18. PICK px : made = Good(Plain(w, h, px)) /\ ShowsWorld(px, Meant.of, bbox, w, h, covered, slack)
  BY <1>17, Zenon DEF MapShows, made
<1>19. made.value = Plain(w, h, px)
  <2> HIDE DEF w, h
  <2> QED BY <1>18 DEF Good
<1>20. \A s \in DOMAIN px : px[s] = Pixel(px[s].shows, px[s].alpha)
  BY <1>18, Zenon DEF ShowsWorld, OfMap
<1>21. Writable(parsed.format)
  <2>1. Understood(parsed) BY <1>1, WhatIsHandled, Zenon DEF Now, parsed
  <2>2. parsed.format # None BY DEF NoFormat, parsed
  <2> QED BY <1>2, <2>1, <2>2 DEF Understood
<1>22. ShowsAs(data.value.image, w, h, px)
  <2>1. data = Write(parsed.format, Plain(w, h, px)) BY <1>19 DEF data
  <2> HIDE DEF w, h
  <2> QED BY <1>7, <1>20, <1>21, <2>1, PlainWritten
<1>23. ShowsWorld(px, Meant.of, Meant.at, w, h, Meant.covered, Meant.slack) BY <1>2, <1>18, Zenon
<1>24. WorldOn(data.value.image, Meant)
  <2> HIDE DEF w, h
  <2> QED BY <1>22, <1>23, WorldShown
<1> QED BY <1>7, <1>24 DEF answer, parsed

(* The picture that a source draws shows of its extent each place where it *)
(* is.                                                                     *)
LEMMA PictureShows ==
  ASSUME NEW meaning, NEW bbox, NEW w, NEW h, IsMap(bbox, w, h), meaning.at = bbox, meaning.slack \in Nat
  PROVE  WorldOn(PictureOf(meaning.of, bbox, w, h), meaning)
<1> DEFINE image == PictureOf(meaning.of, bbox, w, h)
           shown == [s \in Spots(w, h) |-> Pixel({Piece(meaning.of, PixelAt(bbox, w, h, s[1], s[2]))}, "full")]
<1>1. image.w = w /\ image.h = h /\ image.px = shown BY DEF PictureOf, Image, Tabled
<1>2. \A shows, alpha : Pixel(shows, alpha).shows = shows BY DEF Pixel
<1>3. \A of, at : Piece(of, at).of = of /\ Piece(of, at).at = at BY DEF Piece
<1> HIDE DEF image
<1>4. ASSUME NEW s \in Spots(w, h), NEW here, here = PixelAt(bbox, w, h, s[1], s[2])
      PROVE  image.px[s].shows = {Piece(meaning.of, here)} /\ Near(here, here, meaning.slack)
  <2>1. image.px[s] = Pixel({Piece(meaning.of, here)}, "full") BY <1>1, <1>4
  <2>2. image.px[s].shows = {Piece(meaning.of, here)} BY <1>2, <2>1
  <2>3. here.minx < here.maxx /\ here.miny < here.maxy /\ IsExtent(here)
    <3> DEFINE c == s[1]
               r == s[2]
               x == HorizontalResolution(bbox, w)
               y == VerticalResolution(bbox, h)
    <3>1. c \in Nat /\ r \in Nat /\ IsExtent(here) BY <1>4, PixelInMap
    <3>2. x \in Side /\ y \in Side /\ IsExtent(bbox) BY DEF IsMap
    <3>3. here = PixelAt(bbox, w, h, c, r) BY <1>4
    <3> HIDE DEF c, r
    <3>4. x = HorizontalResolution(bbox, w) /\ y = VerticalResolution(bbox, h) OBVIOUS
    <3> HIDE DEF x, y
    <3>5. /\ here.minx = bbox.minx + c * x /\ here.maxx = here.minx + x
          /\ here.maxy = bbox.maxy - r * y /\ here.miny = here.maxy - y
      BY <3>1, <3>2, <3>3, <3>4, PlaceOfPixel
    <3> QED BY <3>1, <3>2, <3>5 DEF IsExtent, Side
  <2>4. Near(here, here, meaning.slack) BY <2>3 DEF Near, IsExtent
  <2> QED BY <2>2, <2>4
<1>5. ASSUME NEW s \in Spots(w, h), NEW here, here = PixelAt(bbox, w, h, s[1], s[2])
      PROVE  /\ Covers(meaning.covered, here, meaning.slack) => image.px[s].shows # {}
             /\ \A piece \in image.px[s].shows : piece.of = meaning.of /\ Near(piece.at, here, meaning.slack)
  <2>1. image.px[s].shows = {Piece(meaning.of, here)} /\ Near(here, here, meaning.slack) BY <1>4, <1>5
  <2>2. \A piece \in image.px[s].shows : piece.of = meaning.of /\ piece.at = here BY <1>3, <2>1
  <2> QED BY <2>1, <2>2
<1>6. DOMAIN image.px = Spots(w, h) BY <1>1
<1> HIDE DEF shown
<1>7. WorldOn(image, meaning) BY <1>1, <1>5, <1>6, Zenon DEF WorldOn
<1> QED BY <1>7 DEF image

Forwards(cfg, parsed, map, answers) ==
  /\ DOMAIN parsed.maps = {1} /\ map = parsed.maps[1] /\ cfg.sources[map.tileset.source].type = "wms"
  /\ answers[1] \in BackendAnswers /\ ~Failed(ForwardAnswer(cfg, parsed, answers))

LEMMA ForwardedShows ==
  ASSUME NEW cfg, NEW parsed, NEW map, NEW answers, Forwards(cfg, parsed, map, answers)
  PROVE  ForwardAnswer(cfg, parsed, answers).value.data.image
           = PictureOf(<<LayersOf(cfg.sources[map.tileset.source], map), Dims(map)>>, map.extent, map.w, map.h)
<1> DEFINE source == cfg.sources[map.tileset.source]
           picture == PictureOf(<<LayersOf(source, map), Dims(map)>>, map.extent, map.w, map.h)
           drawn == [n \in DOMAIN parsed.maps |-> RenderMap(cfg, parsed.maps[n], answers[n])]
           image(d) == IF Failed(d) THEN d
                       ELSE IF d.value.raw_image # {} THEN Good(TheOne(d.value.raw_image))
                       ELSE Decode(TheOne(d.value.encoded_data))
           merged == MergeAll([n \in DOMAIN drawn |-> image(drawn[n])])
           sourceless == \E n \in DOMAIN parsed.maps : parsed.maps[n].tileset.source = None
           sent == Len(drawn) = 1 /\ ~Failed(drawn[1]) /\ drawn[1].value.raw_image = {}
           data == TheOne(drawn[1].value.encoded_data)
           asSent == Answer(data, SniffedMime(data), 0)
           answer == ForwardAnswer(cfg, parsed, answers)
<1>0. /\ DOMAIN parsed.maps = {1} /\ map = parsed.maps[1] /\ source.type = "wms"
      /\ answers[1] \in BackendAnswers /\ ~Failed(answer)
  BY Zenon DEF Forwards
<1>1. answer = IF sourceless THEN Bad(404)
               ELSE IF sent THEN Good(asSent)
               ELSE IF Failed(merged) THEN merged
               ELSE MapAnswer(parsed, merged.value, 0)
  BY Zenon DEF ForwardAnswer
<1>2. Failed(Bad(404)) /\ ~Failed(answer) BY <1>0, BadFails
<1>3. drawn = [n \in {1} |-> RenderMap(cfg, map, answers[1])] BY <1>0
<1> DEFINE one == RenderMap(cfg, map, answers[1])
<1>4. one = WmsRender(source, map, answers[1]) BY <1>0 DEF RenderMap
<1>5. Failed(one) \/ one = Good(Received(Encoded("PNG", picture)))
  <2> HIDE DEF picture, one, source
  <2>1. WmsRender(source, map, answers[1]) = AsPicture(DoRequest(answers[1], picture))
    BY Zenon DEF WmsRender, picture
  <2>2. LET received == AsPicture(DoRequest(answers[1], picture))
        IN  Failed(received) \/ received = Good(Received(Encoded("PNG", picture)))
    BY <1>0, PngReceived
  <2> QED BY <1>4, <2>1, <2>2, Zenon
<1>6. drawn[1] = one /\ Len(drawn) = 1 BY <1>3
<1> HIDE DEF drawn, one, picture, answer, source
<1>7. CASE Failed(one)
  <2>1. ~sent BY <1>6, <1>7
  <2>2. \A n \in DOMAIN drawn : image(drawn[n]) = one BY <1>3, <1>7 DEF one
  <2>3. [n \in DOMAIN drawn |-> image(drawn[n])] = [n \in {1} |-> one] BY <1>3, <2>2
  <2>4. merged = one BY <2>3, OneImage
  <2> HIDE DEF merged, sourceless, sent, asSent
  <2>5. answer \in {Bad(404), one} BY <1>1, <1>7, <2>1, <2>4, Zenon
  <2> QED BY <1>2, <1>7, <2>5
<1>8. CASE ~Failed(one)
  <2>1. one = Good(Received(Encoded("PNG", picture))) BY <1>5, <1>8
  <2>2. one.value.raw_image = {} /\ one.value.encoded_data = {Encoded("PNG", picture)} BY <2>1 DEF Good, Received
  <2>3. sent BY <1>6, <1>8, <2>2
  <2>4. data = Encoded("PNG", picture) BY <1>6, <2>2 DEF TheOne
  <2>5. asSent.data = data BY DEF Answer
  <2> HIDE DEF merged, sourceless, sent, asSent, data
  <2>6. answer = Good(asSent) BY <1>1, <1>2, <2>3, Zenon
  <2>7. answer.value = asSent BY <2>6 DEF Good
  <2>8. answer.value.data.image = picture BY <2>4, <2>5, <2>7 DEF Encoded
  <2> QED BY <2>8 DEF answer, picture, source
<1> QED BY <1>7, <1>8

MapsInv == (OneWmsMap(config, request) => MapsShowTheWorld) /\ (reply.code = 200 => pc \in Ended)

LEMMA MapsStart == Init => MapsInv
<1> SUFFICES ASSUME Init PROVE MapsInv OBVIOUS
<1>1. reply = Bare(0) BY Zenon DEF Init, NoReply
<1>2. reply.code = 0 BY <1>1, ReplyCoded
<1> QED BY <1>2 DEF MapsInv, MapsShowTheWorld, Pictured

(* A map that goes out, of tiles or of the source, is right.               *)
LEMMA SentMapShows ==
  ASSUME KeysApart(Documents), KeptInv, CameInv, Parsed, OneWmsMap(config, request)
  PROVE  /\ MapIsSent => WorldOn(AssembleAnswer(Now.parsed.value, got).value.data.image, Meant)
         /\ \A said \in DOMAIN Now.says :
              pc = "forward" /\ ~Failed(Now.says[said]) => WorldOn(Now.says[said].value.data.image, Meant)
<1>1. ASSUME MapIsSent PROVE WorldOn(AssembleAnswer(Now.parsed.value, got).value.data.image, Meant)
  <2>1. FetchedAll /\ ~NoFormat /\ ~Failed(AssembleAnswer(Now.parsed.value, got)) BY <1>1, Zenon DEF MapIsSent, Sends200
  <2> QED BY <2>1, AssembledShows
<1>2. ASSUME NEW said \in DOMAIN Now.says, pc = "forward", ~Failed(Now.says[said])
      PROVE  WorldOn(Now.says[said].value.data.image, Meant)
  <2> DEFINE parsed == Now.parsed.value
             map == parsed.maps[1]
             source == Cfg(config).sources[map.tileset.source]
             answer == ForwardAnswer(Cfg(config), parsed, said)
  <2>1. config \in DOMAIN Documents /\ Site[config] # {} /\ request \in DOMAIN Requests
    BY <1>2 DEF KeptInv, Requested, Documented, Parsed, Answering
  <2>2. /\ parsed.type = "GET_MAP" /\ DOMAIN parsed.maps = {1} /\ source.type = "wms"
        /\ Meant.of = <<LayersOf(source, map), Dims(map)>> /\ Meant.at = map.extent
        /\ IsMap(map.extent, map.w, map.h) /\ Meant.slack \in Nat
    <3>1. MapAsked(parsed, map) BY WhatMapIsAsked
    <3> HIDE DEF parsed, map
    <3> QED BY <3>1, Zenon DEF MapAsked, source
  <2>3. (\A n \in DOMAIN parsed.maps : said[n] \in BackendAnswers) /\ Now.says[said] = answer
    <3>1. Handled(config, request).parsed.value.type = "GET_MAP" /\ said \in DOMAIN Handled(config, request).says
      BY <2>2 DEF Now
    <3> QED BY <2>1, <3>1, SaysOfMap, Zenon DEF Now
  <2>4. said[1] \in BackendAnswers /\ ~Failed(answer) BY <1>2, <2>2, <2>3
  <2>5. map = parsed.maps[1] OBVIOUS
  <2> HIDE DEF parsed, map
  <2> DEFINE cfg == Cfg(config)
  <2>6. DOMAIN parsed.maps = {1} /\ map = parsed.maps[1] /\ cfg.sources[map.tileset.source].type = "wms"
        /\ said[1] \in BackendAnswers /\ ~Failed(ForwardAnswer(cfg, parsed, said))
    BY <2>2, <2>4, <2>5
  <2> HIDE DEF cfg
  <2>7. Forwards(cfg, parsed, map, said) BY <2>6, Zenon DEF Forwards
  <2>8. ForwardAnswer(cfg, parsed, said).value.data.image
          = PictureOf(<<LayersOf(cfg.sources[map.tileset.source], map), Dims(map)>>, map.extent, map.w, map.h)
    BY <2>7, ForwardedShows
  <2>9. answer.value.data.image = PictureOf(Meant.of, map.extent, map.w, map.h) BY <2>2, <2>8, Zenon DEF cfg
  <2>10. WorldOn(PictureOf(Meant.of, map.extent, map.w, map.h), Meant) BY <2>2, PictureShows
  <2> QED BY <2>3, <2>9, <2>10, Zenon
<1> QED BY <1>1, <1>2

LEMMA MapsStay ==
  ASSUME KeysApart(Documents)
  PROVE  MapsInv /\ TypeInv /\ KeptInv /\ CameInv /\ Parsed /\ [Next]_vars => MapsInv'
<1> SUFFICES ASSUME MapsInv, TypeInv, KeptInv, CameInv, Parsed, [Next]_vars PROVE MapsInv' OBVIOUS
<1>1. CASE ReplyStays
  <2> SUFFICES ASSUME reply'.code = 200
      PROVE  pc' \in Ended /\ (OneWmsMap(config, request)' => MapsShowTheWorld')
    BY DEF MapsInv, MapsShowTheWorld, Pictured
  <2>1. reply' = reply /\ pc' \in Ended /\ request' = request /\ config' \in {config, None}
    BY <1>1 DEF ReplyStays, MapsInv
  <2>2. CASE config' = None BY <2>1, <2>2 DEF MapsShowTheWorld, Pictured
  <2>3. CASE config' = config
    <3>1. (OneWmsMap(config, request)' <=> OneWmsMap(config, request)) /\ (MapsShowTheWorld' <=> MapsShowTheWorld)
      BY <2>1, <2>3 DEF MapsShowTheWorld, Pictured, Now, Meant
    <3> QED BY <2>1, <3>1 DEF MapsInv
  <2> QED BY <2>1, <2>2, <2>3
<1>2. CASE reply'.code # 200 BY <1>2 DEF MapsInv, MapsShowTheWorld, Pictured
<1>3. ASSUME NEW outcome, Sends200(outcome)
      PROVE  /\ pc' \in Ended /\ reply'.data = outcome.value.data /\ Now' = Now /\ Meant' = Meant
             /\ (OneWmsMap(config, request)' <=> OneWmsMap(config, request))
  <2>1. ~Failed(outcome) /\ reply' = Reply(200, outcome.value) /\ pc' = "cleanup" /\ UNCHANGED <<config, request>>
    BY <1>3 DEF Sends200
  <2>2. reply'.data = outcome.value.data BY <2>1 DEF Reply
  <2> QED BY <2>1, <2>2 DEF Now, Meant, Ended
<1>4. ASSUME NEW outcome, Sends200(outcome), OneWmsMap(config, request) => WorldOn(outcome.value.data.image, Meant)
      PROVE  MapsInv'
  <2>1. pc' \in Ended /\ reply'.data = outcome.value.data /\ Meant' = Meant
        /\ (OneWmsMap(config, request)' <=> OneWmsMap(config, request))
    BY <1>3, <1>4
  <2>2. ASSUME OneWmsMap(config, request) PROVE MapsShowTheWorld'
    <3>1. WorldOn(reply'.data.image, Meant') BY <1>4, <2>1, <2>2
    <3> QED BY <3>1, Zenon DEF WorldOn, MapsShowTheWorld
  <2> QED BY <2>1, <2>2 DEF MapsInv
<1>5. CASE TileIsSent
  <2>1. Now.parsed.value.type = "GET_TILE" /\ Sends200(GetTileAnswer(Cfg(config), Now.parsed.value, got))
    BY <1>5, Zenon DEF TileIsSent
  <2>2. pc' \in Ended /\ Now' = Now BY <1>3, <2>1
  <2> QED BY <2>1, <2>2 DEF MapsInv, MapsShowTheWorld, Pictured
<1>6. CASE MapIsSent
  <2>1. Sends200(AssembleAnswer(Now.parsed.value, got)) BY <1>6, Zenon DEF MapIsSent
  <2>2. OneWmsMap(config, request) => WorldOn(AssembleAnswer(Now.parsed.value, got).value.data.image, Meant)
    BY <1>6, SentMapShows
  <2> QED BY <1>4, <2>1, <2>2, Zenon
<1>7. CASE SayingIsSent
  <2>1. pc \in {"forward", "page", "info", "proxy"} /\ pc \in Answering BY <1>7 DEF SayingIsSent, Answering
  <2>2. PICK said \in DOMAIN Now.says : Sends200(Now.says[said]) BY <1>7, Zenon DEF SayingIsSent
  <2>3. Next1(Now.parsed.value) = pc BY <2>1 DEF Parsed
  <2>4. CASE pc = "forward"
    <3>1. ~Failed(Now.says[said]) BY <2>2 DEF Sends200
    <3>2. OneWmsMap(config, request) => WorldOn(Now.says[said].value.data.image, Meant)
      BY <2>2, <2>4, <3>1, SentMapShows
    <3> QED BY <1>4, <2>2, <3>2, Zenon
  <2>5. CASE pc # "forward"
    <3>1. pc' \in Ended /\ Now' = Now BY <1>3, <2>2
    <3>2. Now.parsed.value.type # "GET_MAP" BY <2>1, <2>3, <2>5 DEF Next1
    <3> QED BY <3>1, <3>2 DEF MapsInv, MapsShowTheWorld, Pictured
  <2> QED BY <2>4, <2>5
<1> QED BY <1>1, <1>2, <1>5, <1>6, <1>7, ReplyMoves

(* Where caches keep tiles apart: a request for a map of a layer that a    *)
(* WMS draws is answered with what was asked for, each pixel showing what  *)
(* lies within a pixel of the tiles of it, and showing something where     *)
(* tiles are. The source may have drawn it, or it was put together from    *)
(* the tiles of the level that fits best, resampled, each of which may     *)
(* have been cut out of a metatile for another request, under another      *)
(* document and in any format.                                             *)
THEOREM MapsRight ==
  ASSUME KeysApart(Documents)
  PROVE  Spec => [](OneWmsMap(config, request) => MapsShowTheWorld)
<1>1. Spec => []HarmInv BY HarmStart, HarmStays, PTL DEF Spec
<1>2. Spec => []KeptInv BY KeptStart, KeptStays, <1>1, PTL DEF Spec
<1>3. Spec => []CameInv BY CameStart, CameStays, <1>2, PTL DEF Spec
<1>4. Spec => []Parsed BY ParsedStart, ParsedStays, <1>2, PTL DEF Spec
<1>5. Spec => []CodedTiles BY TilesCoded, <1>2, <1>3, PTL
<1>6. Spec => []TypeInv BY TypeStart, TypeStays, <1>2, <1>4, <1>5, PTL DEF Spec
<1>7. Spec => []MapsInv BY MapsStart, MapsStay, <1>2, <1>3, <1>4, <1>6, PTL DEF Spec
<1>8. MapsInv => (OneWmsMap(config, request) => MapsShowTheWorld) BY DEF MapsInv
<1> QED BY <1>7, <1>8, PTL
=============================================================================
