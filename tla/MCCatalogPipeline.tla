-------------------------- MODULE MCCatalogPipeline --------------------------
EXTENDS CatalogPipeline, TLC

CONSTANTS f1, r1, w1, w2, x1, p1, p2, p3, i1, i3, pageP, itemI

\* A goroutine of each kind, and a second one of the page stream: its auto-claimer.
Goroutines == f1 :> "crawl" @@ r1 :> "pageRetry" @@ w1 :> "page" @@ w2 :> "page" @@ x1 :> "itemRetry"

\* The page p1 is crawled.  Its retry may be handled again, as p2, which finds nothing on
\* the page any more; its page task may be handled again, as p3.
MCAbout == p1 :> pageP @@ p2 :> pageP @@ p3 :> pageP @@ i1 :> itemI @@ i3 :> itemI
MCListed == p1 :> {i1} @@ p2 :> {} @@ p3 :> {i3}

Never == [t \in Target |-> Nothing]
MCCopy == [r \in Streams |->
             CASE r = "pageRetry" -> [Never EXCEPT ![p1] = p2]
               [] r = "page" -> [Never EXCEPT ![p1] = p3]
               [] r = "itemRetry" -> Never]
=============================================================================
