------------------------------ MODULE MCStores ------------------------------
(* Two threads, of one process or of two, and every kind of cache.          *)
EXTENDS Stores, TLC
CONSTANTS a, b, P, Q, blank, img

Read(n, t) == [name |-> n, tile |-> t, writes |-> {}]
WriteAll(n, W) == [name |-> n, tile |-> None, writes |-> W]
Writes == {WriteAll("set", {<<1, img>>}), WriteAll("multiset", {<<1, blank>>, <<2, blank>>}),
           WriteAll("delete", {<<1, None>>})}
Program(k, m, s, p, n) == [kind |-> k, mutex |-> m, sticky |-> s, process |-> p, lockdir |-> TRUE,
                           ops |-> Writes \union {Read(n, 2)}]
WithBoth(g) == [g EXCEPT !.ops = @ \union {Read("get", 2)}]
Together == [t \in Threads |-> P]
Apart == a :> P @@ b :> Q
MCPrograms ==
  {Program("sqlite", TRUE, TRUE, Together, "has"), Program("sqlite", FALSE, FALSE, Together, "get"),
   Program("mbtiles", TRUE, FALSE, Together, "get"),
   WithBoth(Program("bdb", TRUE, TRUE, Together, "has")),
   Program("tc", TRUE, FALSE, Together, "get"), Program("tc", TRUE, TRUE, Apart, "has")}
  \union {WithBoth(Program(k, TRUE, FALSE, Apart, "has")) : k \in {"memcache", "tiff"}}
  \union {[Program("tiff", TRUE, FALSE, Together, "get") EXCEPT !.lockdir = FALSE]}
  \union {[Program("s3", TRUE, FALSE, Apart, n) EXCEPT !.ops = @ \union {Read(n, 1)}] :
           n \in {"has", "get"}}
=============================================================================
