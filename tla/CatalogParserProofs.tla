------------------------- MODULE CatalogParserProofs -------------------------
(***************************************************************************)
(* What the parser returns.  At every call of a callback the variables     *)
(* hold what the links that were met so far have, and a call adds one link *)
(* to them; when a search is over all its links were met.  So the          *)
(* properties of the result follow without an induction over the document. *)
(***************************************************************************)
EXTENDS CatalogParser, FiniteSetTheorems, WellFoundedInduction, TLAPS

USE DocumentsAssumption, EnoughAssumption

Documents == CatalogPages \union ItemPages

-----------------------------------------------------------------------------
(* Types and the inductive invariant.                                      *)

\* The steps at which the inventories, the colours and so on have been dealt with.
PartsListed == {"image", "item parsed"}
ColorsListed == PartsListed \union {"Item Consists Of", "Item Appears In"}
ColorsFound == ColorsListed \union {"color list"}
GuideRead == ColorsFound \union {"Lots For Sale", "Known Colors"}
ItemSteps == GuideRead \union {"Catalog", "Price Guide Info"}
PageSteps == {"pagination", "items", "page parsed", "failed"}

Ids == {doc[k].id : k \in DOMAIN doc}
Names == {doc[k].says[1] : k \in DOMAIN doc}

\* Types.  The outer callback is only called where it does something.
TypeOK ==
  /\ doc \in Documents
  /\ step \in ItemSteps \union PageSteps
  /\ at \in {0} \union Places(step)
  /\ link \in {0} \union DOMAIN doc
  /\ items \in Seq(Ids)
  /\ colorMap \in [DOMAIN colorMap -> Names]
  /\ DOMAIN colorMap \subseteq Ids
  /\ colors \in Seq([id : Ids, name : Names])
  /\ crumbs \in Seq(Ids)
  /\ appearsIn \in Seq(Ids)
  /\ consistsOf \in Seq(Ids)
  /\ image \in {0} \union Ids

\* The inner callback was called with link k in the outer one's call with element i.
IsSeen(i, k) == i < at \/ (i = at /\ k <= link)

\* The numbers are read from the last element with the words.
FromBanner(i) == IsBanner(i) /\ (\A j \in DOMAIN doc : IsBanner(j) => j <= i) /\ page = Pagination(i)

PageInv ==
  /\ step \in {"items", "page parsed"} => \E i \in DOMAIN doc : FromBanner(i)
  /\ step \notin {"items", "page parsed"} => page = NoPage
  /\ step = "failed" => \A i \in DOMAIN doc : ~IsBanner(i)

\* The colours of a section, and those of them that have been met.
IdsIn(s) == {doc[v[2]].id : v \in ColourLinks(s)}
SeenLinks(s) == {v \in ColourLinks(s) : IsSeen(v[1], v[2])}
SeenIn(s) == {doc[v[2]].id : v \in SeenLinks(s)}

\* w is met after v.
Later(v, w) == w[1] > v[1] \/ (w[1] = v[1] /\ w[2] > v[2])

\* The names are those of the last links in a set of links.
LastNames(V) ==
  \A v \in V : (~ \E w \in V : doc[w[2]].id = doc[v[2]].id /\ Later(v, w)) =>
                 /\ doc[v[2]].id \in DOMAIN colorMap
                 /\ colorMap[doc[v[2]].id] = doc[v[2]].says[1]

NameInv ==
  /\ step = "Price Guide Info" => LastNames(SeenLinks("Price Guide Info"))
  /\ step \in GuideRead => LastNames(ColourLinks("Price Guide Info"))

\* The colours found before the known colours.
IdsForSale ==
  IF Cardinality(IdsIn("Price Guide Info")) < Enough THEN IdsIn("Lots For Sale") ELSE {}
Found == IdsIn("Price Guide Info") \union IdsForSale

ColorInv ==
  /\ step = "Catalog" => DOMAIN colorMap = {}
  /\ step = "Price Guide Info" => DOMAIN colorMap = SeenIn("Price Guide Info")
  /\ step = "Lots For Sale" =>
       /\ Cardinality(IdsIn("Price Guide Info")) < Enough
       /\ DOMAIN colorMap = IdsIn("Price Guide Info") \union SeenIn("Lots For Sale")
  /\ step = "Known Colors" => DOMAIN colorMap = Found \union SeenIn("Known Colors")
  /\ step \in ColorsFound => DOMAIN colorMap = Found \union IdsIn("Known Colors")

\* The list has an entry of the map at most once, and all of them when it is made.
ListInv ==
  /\ step \notin ColorsFound => colors = << >>
  /\ \A k \in DOMAIN colors : /\ colors[k].id \in DOMAIN colorMap
                               /\ colors[k].name = colorMap[colors[k].id]
  /\ IsFiniteSet(Listed)
  /\ Len(colors) = Cardinality(Listed)
  /\ step \in ColorsListed => DOMAIN colorMap \subseteq Listed

\* The inventories met since the last cell without parts.
Header == "Item Consists Of"
NA(i) == HasText(Parent(i), "N/A")
Since(i) == \A j \in Places(Header) : i <= j /\ j <= at => ~NA(j)
Kept == {k \in DOMAIN doc :
           \E i \in Places(Header) : k \in Links(Header, i) /\ IsSeen(i, k) /\ Since(i)}
Below == {k \in DOMAIN doc :
            \E i \in Places(Header) :
              k \in Links(Header, i) /\ \A j \in Places(Header) : i <= j => ~NA(j)}
Parts == {consistsOf[n] : n \in DOMAIN consistsOf}

PartsInv ==
  /\ step \notin PartsListed \union {Header} => consistsOf = << >>
  /\ step = Header => Parts = {doc[k].id : k \in Kept}
  /\ step \in PartsListed => Parts = {doc[k].id : k \in Below}

ParserInv == TypeOK /\ PageInv /\ NameInv /\ ColorInv /\ ListInv /\ PartsInv

-----------------------------------------------------------------------------
(* The document does not change.                                           *)

LEMMA SameDocument ==
  ASSUME doc' = doc
  PROVE  /\ \A i : Inside(i)' = Inside(i)
         /\ \A i : Text(i)' = Text(i)
         /\ \A i, w : HasText(i, w)' <=> HasText(i, w)
         /\ \A i : Parent(i)' = Parent(i)
         /\ \A i : IsBanner(i)' <=> IsBanner(i)
         /\ \A s : Places(s)' = Places(s)
         /\ Places(step)' = Places(step')
         /\ \A s, i : Links(s, i)' = Links(s, i)
         /\ \A s : ColourLinks(s)' = ColourLinks(s)
         /\ \A i : Pagination(i)' = Pagination(i)
         /\ Ids' = Ids /\ Names' = Names
<1>1. \A i : Inside(i)' = Inside(i)
  BY DEF Inside
<1>2. \A i : Text(i)' = Text(i)
  BY <1>1 DEF Text
<1>3. \A i, w : HasText(i, w)' <=> HasText(i, w)
  BY <1>2 DEF HasText
<1>4. \A i, w : StartsWith(i, w)' <=> StartsWith(i, w)
  BY <1>2 DEF StartsWith
<1>5. \A i : Parent(i)' = Parent(i)
  BY DEF Parent
<1>6. \A i : IsBanner(i)' <=> IsBanner(i)
  BY <1>3 DEF IsBanner
<1>7. (\A s : Places(s)' = Places(s)) /\ Places(step)' = Places(step')
  BY <1>3, <1>4, <1>6 DEF Places
<1>8. \A i, t : Find(i, t)' = Find(i, t)
  BY <1>1 DEF Find
<1>9. \A s, i : Links(s, i)' = Links(s, i)
  BY <1>3, <1>5, <1>8 DEF Links
<1>10. \A s : ColourLinks(s)' = ColourLinks(s)
  BY <1>7, <1>8 DEF ColourLinks, IsColour
<1>11. \A i, w : Numbered(i, w)' = Numbered(i, w)
  BY <1>2 DEF Numbered
<1>12. \A i, w, n : NumberIn(i, w, n)' = NumberIn(i, w, n)
  BY <1>11 DEF NumberIn
<1>13. \A i : Pagination(i)' = Pagination(i)
  BY <1>12 DEF Pagination
<1>14. Ids' = Ids /\ Names' = Names
  BY DEF Ids, Names
<1> QED
  BY <1>1, <1>2, <1>3, <1>5, <1>6, <1>7, <1>9, <1>10, <1>13, <1>14

LEMMA AppendTo ==
  ASSUME NEW S, NEW q \in Seq(S), NEW e \in S
  PROVE  /\ Append(q, e) \in Seq(S)
         /\ Len(q) \in Nat /\ Len(Append(q, e)) = Len(q) + 1
         /\ DOMAIN q = 1..Len(q) /\ DOMAIN Append(q, e) = 1..(Len(q) + 1)
         /\ \A n \in DOMAIN q : Append(q, e)[n] = q[n]
         /\ Append(q, e)[Len(q) + 1] = e
OBVIOUS

LEMMA ElementOf ==
  ASSUME NEW S, NEW q \in Seq(S), NEW k \in DOMAIN q
  PROVE  q[k] \in S
OBVIOUS

LEMMA LeastNumber ==
  ASSUME NEW S \in SUBSET Nat, S # {}
  PROVE  \E k \in S : \A other \in S : k <= other
<1>1. PICK k \in S : \A other \in S : ~(<<other, k>> \in OpToRel(<, Nat))
  BY NatLessThanWellFounded, WFMin, Zenon
<1>2. \A other \in S : ~(other < k)
  BY <1>1, Zenon DEF OpToRel
<1> QED
  BY <1>2

-----------------------------------------------------------------------------
(* The steps of a search.                                                  *)

LEMMA InDocument ==
  ASSUME TypeOK
  PROVE  /\ doc \in Documents /\ Len(doc) \in Nat /\ DOMAIN doc = 1..Len(doc)
         /\ at \in Nat /\ link \in Nat
         /\ at # 0 => at \in Places(step)
         /\ \A s : Places(s) \subseteq DOMAIN doc
         /\ \A s, i : Links(s, i) \subseteq DOMAIN doc
         /\ \A s : \A i \in Places(s) : i \in Nat \ {0}
         /\ \A s, i : \A k \in Links(s, i) : k \in Nat \ {0}
<1>1. doc \in Documents /\ Len(doc) \in Nat /\ DOMAIN doc = 1..Len(doc)
  BY DEF TypeOK, Documents
<1>2. /\ \A s : Places(s) \subseteq DOMAIN doc
      /\ \A s, i : Links(s, i) \subseteq DOMAIN doc
  BY DEF Places, Links
<1>3. at \in Nat /\ link \in Nat /\ (at # 0 => at \in Places(step))
  BY <1>1, <1>2 DEF TypeOK
<1>4. /\ \A s : \A i \in Places(s) : i \in Nat \ {0}
      /\ \A s, i : \A k \in Links(s, i) : k \in Nat \ {0}
  BY <1>1, <1>2
<1> QED
  BY <1>1, <1>2, <1>3, <1>4

\* The next call of the outer callback changes nothing about the links met.
LEMMA OnEnter ==
  ASSUME TypeOK, NEW s, Enter(s)
  PROVE  /\ doc' = doc /\ step = s /\ step' = s /\ link' = 0
         /\ at' \in Places(s) /\ at < at'
         /\ \A i \in Places(s) : i <= at' <=> i <= at \/ i = at'
         /\ \A i \in Places(s) : \A k \in Links(s, i) : IsSeen(i, k)' <=> IsSeen(i, k)
<1>1. /\ doc' = doc /\ step = s /\ step' = s /\ link' = 0
      /\ at' \in Places(s) /\ at < at' /\ \A i \in Places(s) : i > at => at' <= i
  BY DEF Enter, ComesNext
<1>2. at # 0 => at \in Places(s) /\ \A k \in Links(s, at) : k <= link
  BY <1>1, InDocument DEF Enter, LookedAt
<1>3. ASSUME NEW i \in Places(s)
      PROVE  i <= at' <=> i <= at \/ i = at'
  BY <1>1, <1>3, InDocument
<1>4. ASSUME NEW i \in Places(s), NEW k \in Links(s, i)
      PROVE  IsSeen(i, k)' <=> IsSeen(i, k)
  <2>1. i \in Nat \ {0} /\ k \in Nat \ {0} /\ at \in Nat /\ link \in Nat /\ at' \in Nat
    BY <1>1, InDocument
  <2>2. IsSeen(i, k)' <=> i < at'
    BY <1>1, <2>1 DEF IsSeen
  <2>3. i < at' <=> i <= at
    BY <1>1, <2>1
  <2>4. i <= at <=> IsSeen(i, k)
    BY <1>2, <2>1 DEF IsSeen
  <2> QED
    BY <2>2, <2>3, <2>4
<1> QED
  BY <1>1, <1>3, <1>4

\* A call of the inner callback meets one more link.
LEMMA OnLook ==
  ASSUME TypeOK, NEW s, Look(s)
  PROVE  /\ doc' = doc /\ step = s /\ step' = s /\ at' = at
         /\ at \in Places(s) /\ link' \in Links(s, at)
         /\ \A i \in Places(s) : \A k \in Links(s, i) :
              IsSeen(i, k)' <=> IsSeen(i, k) \/ (i = at /\ k = link')
         /\ ~IsSeen(at, link')
<1>1. /\ doc' = doc /\ step = s /\ step' = s /\ at' = at /\ at # 0
      /\ link' \in Links(s, at) /\ link < link'
      /\ \A k \in Links(s, at) : k > link => link' <= k
  BY DEF Look, ComesNext
<1>2. at \in Places(s) /\ at \in Nat /\ link \in Nat /\ link' \in Nat
  BY <1>1, InDocument
<1>3. ASSUME NEW i \in Places(s), NEW k \in Links(s, i)
      PROVE  IsSeen(i, k)' <=> IsSeen(i, k) \/ (i = at /\ k = link')
  <2>1. i \in Nat \ {0} /\ k \in Nat \ {0}
    BY InDocument
  <2>2. i = at => (k <= link' <=> k <= link \/ k = link')
    BY <1>1, <1>2, <2>1
  <2> QED
    BY <1>1, <2>2 DEF IsSeen
<1>4. ~IsSeen(at, link')
  BY <1>1, <1>2 DEF IsSeen
<1> QED
  BY <1>1, <1>2, <1>3, <1>4

\* A section is left when all its links have been met, and none of the next has been.
LEMMA OnLeave ==
  ASSUME TypeOK, NEW s, NEW next, Leave(s, next)
  PROVE  /\ doc' = doc /\ step = s /\ step' = next /\ at' = 0 /\ link' = 0
         /\ \A i \in Places(s) : i <= at
         /\ \A i \in Places(s) : \A k \in Links(s, i) : IsSeen(i, k)
         /\ \A i \in Places(next) : \A k \in Links(next, i) : ~IsSeen(i, k)'
<1>1. /\ doc' = doc /\ step = s /\ step' = next /\ at' = 0 /\ link' = 0
      /\ at # 0 => \A k \in Links(s, at) : k <= link
      /\ \A i \in Places(s) : i <= at
  BY DEF Leave, LookedAt
<1>2. ASSUME NEW i \in Places(s), NEW k \in Links(s, i)
      PROVE  IsSeen(i, k)
  BY <1>1, InDocument DEF IsSeen
<1>3. ASSUME NEW i \in Places(next), NEW k \in Links(next, i)
      PROVE  ~IsSeen(i, k)'
  BY <1>1, InDocument DEF IsSeen
<1> QED
  BY <1>1, <1>2, <1>3

-----------------------------------------------------------------------------
(* Types.                                                                  *)

\* Every step of a search is one of three kinds; listing the colours is none.
LEMMA KindsOfSteps ==
  ASSUME Next
  PROVE  \/ \E s : Enter(s)
         \/ \E s : Look(s)
         \/ \E s, next : Leave(s, next) /\ next \in ItemSteps \union PageSteps
         \/ ListColor
         \/ ListColors
<1> USE DEF Next, ParseCatalogPage, ParseItemDetails
<1>1. ASSUME FindBanner \/ ExtractItem \/ Search \/ ConsistsOf \/ ItemImage
      PROVE  \E s : Enter(s)
  BY <1>1, Zenon DEF FindBanner, ExtractItem, Search, ConsistsOf, ItemImage
<1>2. ASSUME \/ AddCrumb \/ PriceGuide \/ LotsForSale \/ KnownColors
             \/ AddAppearsIn \/ AddConsistsOf
      PROVE  \E s : Look(s)
  BY <1>2, Zenon DEF AddCrumb, PriceGuide, LotsForSale, KnownColors, AddAppearsIn,
                     AddConsistsOf
<1>3. ASSUME ExtractPaginationInfo \/ ExtractItems \/ SearchOver
      PROVE  \E s, next : Leave(s, next) /\ next \in ItemSteps \union PageSteps
  <2>1. CASE ExtractPaginationInfo
    <3>1. {"items", "failed"} \subseteq PageSteps
      BY DEF PageSteps
    <3> QED
      BY <2>1, <3>1 DEF ExtractPaginationInfo
  <2>2. CASE ExtractItems
    <3>1. "page parsed" \in PageSteps
      BY DEF PageSteps
    <3> QED
      BY <2>2, <3>1 DEF ExtractItems
  <2>3. CASE SearchOver
    <3>1. /\ {"Price Guide Info", "Lots For Sale", "Known Colors", "color list",
              "Item Consists Of", "image", "item parsed"} \subseteq ItemSteps
          /\ AfterPriceGuide \in {"Lots For Sale", "Known Colors"}
      BY DEF ItemSteps, GuideRead, ColorsFound, ColorsListed, PartsListed, AfterPriceGuide
    <3> QED
      BY <2>3, <3>1 DEF SearchOver
  <2> QED
    BY <1>3, <2>1, <2>2, <2>3
<1> QED
  BY <1>1, <1>2, <1>3

LEMMA DocumentStays ==
  ASSUME [Next]_vars
  PROVE  doc' = doc
<1>1. CASE Next
  BY <1>1, KindsOfSteps DEF Enter, Look, Leave, ListColor, ListColors
<1>2. CASE UNCHANGED vars
  BY <1>2 DEF vars
<1> QED
  BY <1>1, <1>2

LEMMA PositionTypes ==
  ASSUME TypeOK, [Next]_vars
  PROVE  /\ step' \in ItemSteps \union PageSteps
         /\ at' \in {0} \union Places(step)'
         /\ link' \in {0} \union DOMAIN doc
<1>1. \A s : Places(s)' = Places(s)
  BY DocumentStays, SameDocument
<1>2. Places(step)' = Places(step') /\ DOMAIN doc' = DOMAIN doc
  BY DocumentStays, SameDocument
<1> USE DEF TypeOK
<1>3. CASE \E s : Enter(s)
  BY <1>1, <1>2, <1>3, OnEnter
<1>4. CASE \E s : Look(s)
  BY <1>1, <1>2, <1>4, OnLook, InDocument
<1>5. CASE \E s, next : Leave(s, next) /\ next \in ItemSteps \union PageSteps
  BY <1>5, OnLeave
<1>6. CASE ListColor
  BY <1>1, <1>6 DEF ListColor
<1>7. CASE ListColors
  <2>1. Places("color list") = {}
    BY DEF Places, ColorSections, Titles
  <2>2. "Item Appears In" \in ItemSteps
    BY DEF ItemSteps, GuideRead, ColorsFound, ColorsListed, PartsListed
  <2> QED
    BY <1>7, <2>1, <2>2 DEF ListColors
<1>8. CASE UNCHANGED vars
  BY <1>1, <1>8 DEF vars
<1> QED
  BY <1>3, <1>4, <1>5, <1>6, <1>7, <1>8, KindsOfSteps

\* Who changes what.
LEMMA Frames ==
  ASSUME [Next]_vars
  PROVE  /\ step' = step \/ ExtractPaginationInfo \/ ExtractItems \/ SearchOver \/ ListColors
         /\ page' = page \/ ExtractPaginationInfo
         /\ items' = items \/ ExtractItem
         /\ colorMap' = colorMap \/ PriceGuide \/ LotsForSale \/ KnownColors
         /\ colors' = colors \/ ListColor
         /\ crumbs' = crumbs \/ AddCrumb
         /\ appearsIn' = appearsIn \/ AddAppearsIn
         /\ consistsOf' = consistsOf \/ ConsistsOf \/ AddConsistsOf
         /\ image' = image \/ ItemImage
<1> USE DEF vars, pageVars, colorVars, listVars
<1>1. CASE UNCHANGED vars
  BY <1>1
<1>2. CASE FindBanner \/ ExtractPaginationInfo \/ ExtractItem \/ ExtractItems
  BY <1>2 DEF FindBanner, ExtractPaginationInfo, ExtractItem, ExtractItems, Enter
<1>3. CASE Search \/ SearchOver \/ AddCrumb
  BY <1>3 DEF Search, SearchOver, AddCrumb, Enter, Look
<1>4. CASE PriceGuide \/ LotsForSale \/ KnownColors \/ ListColor \/ ListColors
  BY <1>4 DEF PriceGuide, LotsForSale, KnownColors, ListColor, ListColors, Look
<1>5. CASE AddAppearsIn \/ ConsistsOf \/ AddConsistsOf \/ ItemImage
  BY <1>5 DEF AddAppearsIn, ConsistsOf, AddConsistsOf, ItemImage, Enter, Look
<1> QED
  BY <1>1, <1>2, <1>3, <1>4, <1>5 DEF Next, ParseCatalogPage, ParseItemDetails

\* What the links name is among the colours, items or lists of the document.
LEMMA LookTypes ==
  ASSUME TypeOK, NEW s, Look(s)
  PROVE  link' \in DOMAIN doc /\ doc[link'].id \in Ids /\ doc[link'].says[1] \in Names
BY OnLook, InDocument DEF Ids, Names

LEMMA MapTypes ==
  ASSUME TypeOK, [Next]_vars
  PROVE  colorMap' \in [DOMAIN colorMap' -> Names] /\ DOMAIN colorMap' \subseteq Ids
<1> USE DEF TypeOK
<1>1. CASE PriceGuide \/ LotsForSale \/ KnownColors
  <2>1. /\ colorMap' \in {colorMap, Overwriting(doc[link'])}
        /\ doc[link'].id \in Ids /\ doc[link'].says[1] \in Names
    BY <1>1, LookTypes, DocumentStays DEF PriceGuide, LotsForSale, KnownColors, Adding
  <2> DEFINE a == doc[link']
  <2>2. /\ Overwriting(a) \in [DOMAIN colorMap \union {a.id} -> Names]
        /\ DOMAIN Overwriting(a) = DOMAIN colorMap \union {a.id}
    <3> HIDE DEF a
    <3>1. \A id \in DOMAIN colorMap : colorMap[id] \in Names
      OBVIOUS
    <3> QED
      BY <2>1, <3>1 DEF Overwriting, a
  <2> QED
    BY <2>1, <2>2
<1>2. CASE UNCHANGED colorMap
  BY <1>2
<1> QED
  BY <1>1, <1>2, Frames

LEMMA ListTypes ==
  ASSUME TypeOK, [Next]_vars
  PROVE  /\ items' \in Seq(Ids)
         /\ colors' \in Seq([id : Ids, name : Names])
         /\ crumbs' \in Seq(Ids)
         /\ appearsIn' \in Seq(Ids)
         /\ consistsOf' \in Seq(Ids)
         /\ image' \in {0} \union Ids
<1> USE DEF TypeOK
<1>1. items' \in Seq(Ids)
  <2>1. CASE ExtractItem
    <3>1. doc[at'].id \in Ids
      BY <2>1, OnEnter, InDocument DEF ExtractItem, Ids
    <3> QED
      BY <2>1, <3>1, AppendTo DEF ExtractItem
  <2> QED
    BY <2>1, Frames
<1>2. colors' \in Seq([id : Ids, name : Names])
  <2>1. CASE ListColor
    <3>1. PICK id \in DOMAIN colorMap : colors' = Append(colors, [id |-> id, name |-> colorMap[id]])
      BY <2>1 DEF ListColor
    <3>2. id \in Ids /\ colorMap[id] \in Names
      OBVIOUS
    <3> QED
      BY <3>1, <3>2, AppendTo
  <2> QED
    BY <2>1, Frames
<1>3. crumbs' \in Seq(Ids)
  <2>1. CASE AddCrumb
    <3>1. doc[link'].id \in Ids
      BY <2>1, LookTypes DEF AddCrumb
    <3> QED
      BY <2>1, <3>1, AppendTo DEF AddCrumb
  <2> QED
    BY <2>1, Frames
<1>4. appearsIn' \in Seq(Ids)
  <2>1. CASE AddAppearsIn
    <3>1. doc[link'].id \in Ids
      BY <2>1, LookTypes DEF AddAppearsIn
    <3> QED
      BY <2>1, <3>1, AppendTo DEF AddAppearsIn
  <2> QED
    BY <2>1, Frames
<1>5. consistsOf' \in Seq(Ids)
  <2>1. CASE ConsistsOf
    <3>1. << >> \in Seq(Ids)
      OBVIOUS
    <3>2. consistsOf' \in {<< >>, consistsOf}
      BY <2>1 DEF ConsistsOf
    <3> QED
      BY <3>1, <3>2
  <2>2. CASE AddConsistsOf
    <3>1. doc[link'].id \in Ids
      BY <2>2, LookTypes DEF AddConsistsOf
    <3> QED
      BY <2>2, <3>1, AppendTo DEF AddConsistsOf
  <2> QED
    BY <2>1, <2>2, Frames
<1>6. image' \in {0} \union Ids
  <2>1. CASE ItemImage
    <3>1. doc[at'].id \in Ids
      BY <2>1, OnEnter, InDocument DEF ItemImage, Ids
    <3> QED
      BY <2>1, <3>1 DEF ItemImage
  <2> QED
    BY <2>1, Frames
<1> QED
  BY <1>1, <1>2, <1>3, <1>4, <1>5, <1>6

LEMMA TypeStep ==
  ASSUME TypeOK, [Next]_vars
  PROVE  TypeOK'
<1>1. doc' = doc /\ Ids' = Ids /\ Names' = Names
  BY DocumentStays, SameDocument
<1>2. doc' \in Documents
  BY <1>1 DEF TypeOK
<1> QED
  BY <1>1, <1>2, PositionTypes, MapTypes, ListTypes DEF TypeOK

-----------------------------------------------------------------------------
(* The pagination.                                                         *)

LEMMA PageStep ==
  ASSUME TypeOK, PageInv, [Next]_vars
  PROVE  PageInv'
<1>1. /\ \A i : (FromBanner(i) /\ page' = page) => FromBanner(i)'
      /\ \A i : IsBanner(i)' <=> IsBanner(i)
      /\ doc' = doc
  BY DocumentStays, SameDocument DEF FromBanner
<1>2. CASE ExtractPaginationInfo
  <2>1. PICK next : Leave("pagination", next)
    BY <1>2 DEF ExtractPaginationInfo
  <2>2. /\ \A i \in DOMAIN doc : IsBanner(i) => i \in Places("pagination")
        /\ \A i \in Places("pagination") : IsBanner(i)
    BY DEF Places, ColorSections, Titles
  <2>3. CASE at # 0
    <3>1. page' = Pagination(at) /\ step' = "items" /\ step = "pagination"
      BY <1>2, <2>3 DEF ExtractPaginationInfo, Leave
    <3>2. at \in DOMAIN doc /\ IsBanner(at)
      BY <2>2, <2>3, <3>1, InDocument
    <3>3. \A j \in DOMAIN doc : IsBanner(j) => j <= at
      BY <2>1, <2>2, OnLeave
    <3>4. \A i : Pagination(i)' = Pagination(i)
      BY DocumentStays, SameDocument
    <3>5. PICK i \in DOMAIN doc : i = at
      BY <3>2
    <3>6. FromBanner(i)'
      BY <1>1, <3>1, <3>2, <3>3, <3>4, <3>5 DEF FromBanner
    <3> QED
      BY <1>1, <3>1, <3>6 DEF PageInv
  <2>4. CASE at = 0
    <3>1. page' = page /\ step' = "failed" /\ step = "pagination"
      BY <1>2, <2>4 DEF ExtractPaginationInfo, Leave
    <3>2. \A i \in DOMAIN doc : ~IsBanner(i)
      BY <2>1, <2>2, <2>4, OnLeave, InDocument
    <3> QED
      BY <1>1, <3>1, <3>2 DEF PageInv
  <2> QED
    BY <2>3, <2>4
<1>3. CASE ExtractItems
  <2>1. step = "items" /\ step' = "page parsed" /\ page' = page
    BY <1>3 DEF ExtractItems, Leave, pageVars
  <2> QED
    BY <1>1, <2>1 DEF PageInv
<1>4. CASE SearchOver \/ ListColors
  <2>1. /\ page' = page /\ step \notin {"items", "page parsed"}
        /\ step' \notin {"items", "page parsed", "failed"}
    BY <1>4 DEF SearchOver, ListColors, Leave, AfterPriceGuide, pageVars
  <2> QED
    BY <2>1 DEF PageInv
<1>5. CASE step' = step /\ page' = page
  BY <1>1, <1>5 DEF PageInv
<1> QED
  BY <1>2, <1>3, <1>4, <1>5, Frames

-----------------------------------------------------------------------------
(* The colours that have been met.                                         *)

LEMMA InLinks ==
  ASSUME NEW s \in ColorSections, NEW v \in ColourLinks(s)
  PROVE  v[1] \in Places(s) /\ v[2] \in Links(s, v[1]) /\ IsColour(s, doc[v[2]])
BY DEF ColourLinks, Links

LEMMA SeenOnEnter ==
  ASSUME TypeOK, NEW s \in ColorSections, Enter(s)
  PROVE  SeenLinks(s)' = SeenLinks(s) /\ SeenIn(s)' = SeenIn(s)
<1>1. doc' = doc /\ ColourLinks(s)' = ColourLinks(s)
  BY OnEnter, SameDocument
<1>2. \A v \in ColourLinks(s) : IsSeen(v[1], v[2])' <=> IsSeen(v[1], v[2])
  BY OnEnter, InLinks
<1>3. SeenLinks(s)' = SeenLinks(s)
  BY <1>1, <1>2 DEF SeenLinks
<1> QED
  BY <1>1, <1>3 DEF SeenIn

LEMMA SeenOnLook ==
  ASSUME TypeOK, NEW s \in ColorSections, Look(s)
  PROVE  /\ IsColour(step, doc[link']) =>
              /\ SeenLinks(s)' = SeenLinks(s) \union {<<at, link'>>}
              /\ SeenIn(s)' = SeenIn(s) \union {doc[link'].id}
         /\ ~IsColour(step, doc[link']) =>
              SeenLinks(s)' = SeenLinks(s) /\ SeenIn(s)' = SeenIn(s)
         /\ \A v \in SeenLinks(s) : Later(v, <<at, link'>>) /\ ~Later(<<at, link'>>, v)
<1>1. /\ doc' = doc /\ ColourLinks(s)' = ColourLinks(s) /\ step = s
      /\ at \in Places(s) /\ link' \in Links(s, at)
  BY OnLook, SameDocument
<1> DEFINE new == <<at, link'>>
<1>2. ASSUME NEW v \in ColourLinks(s)
      PROVE  IsSeen(v[1], v[2])' <=> IsSeen(v[1], v[2]) \/ v = new
  <2>1. v = <<v[1], v[2]>>
    BY DEF ColourLinks
  <2>2. IsSeen(v[1], v[2])' <=> IsSeen(v[1], v[2]) \/ (v[1] = at /\ v[2] = link')
    BY OnLook, InLinks
  <2> QED
    BY <2>1, <2>2
<1>3. new \in ColourLinks(s) <=> IsColour(s, doc[link'])
  BY <1>1, InDocument DEF ColourLinks, Links, ColorSections, Titles
<1>4. ~IsSeen(new[1], new[2])
  BY OnLook
<1>5. ASSUME IsColour(s, doc[link'])
      PROVE  /\ SeenLinks(s)' = SeenLinks(s) \union {new}
             /\ SeenIn(s)' = SeenIn(s) \union {doc[link'].id}
  <2>1. SeenLinks(s)' = SeenLinks(s) \union {new}
    BY <1>1, <1>2, <1>3, <1>5 DEF SeenLinks
  <2>2. SeenIn(s)' = {doc[v[2]].id : v \in SeenLinks(s) \union {new}}
    BY <1>1, <2>1 DEF SeenIn
  <2>3. SeenIn(s)' = {doc[v[2]].id : v \in SeenLinks(s)} \union {doc[new[2]].id}
    <3> HIDE DEF new
    <3> QED
      BY <2>2
  <2> QED
    BY <2>1, <2>3 DEF SeenIn
<1>6. ASSUME ~IsColour(s, doc[link'])
      PROVE  SeenLinks(s)' = SeenLinks(s) /\ SeenIn(s)' = SeenIn(s)
  <2>1. SeenLinks(s)' = SeenLinks(s)
    BY <1>1, <1>2, <1>3, <1>6 DEF SeenLinks
  <2>2. SeenIn(s)' = SeenIn(s)
    BY <1>1, <2>1 DEF SeenIn
  <2> QED
    BY <2>1, <2>2
<1>7. ASSUME NEW v \in SeenLinks(s)
      PROVE  Later(v, new) /\ ~Later(new, v)
  <2>1. IsSeen(v[1], v[2]) /\ v[1] \in Nat /\ v[2] \in Nat
    BY InLinks, InDocument DEF SeenLinks
  <2>2. at \in Nat /\ link \in Nat /\ link' \in Nat /\ link < link'
    BY <1>1, InDocument DEF Look, ComesNext
  <2> QED
    BY <2>1, <2>2 DEF IsSeen, Later
<1> QED
  BY <1>1, <1>5, <1>6, <1>7

LEMMA SeenOnLeave ==
  ASSUME TypeOK, NEW s, NEW next, Leave(s, next)
  PROVE  /\ s \in ColorSections => SeenLinks(s) = ColourLinks(s) /\ SeenIn(s) = IdsIn(s)
         /\ next \in ColorSections => SeenLinks(next)' = {} /\ SeenIn(next)' = {}
<1>1. ASSUME s \in ColorSections
      PROVE  SeenLinks(s) = ColourLinks(s) /\ SeenIn(s) = IdsIn(s)
  <2>1. SeenLinks(s) = ColourLinks(s)
    BY <1>1, OnLeave, InLinks DEF SeenLinks
  <2> QED
    BY <2>1 DEF SeenIn, IdsIn
<1>2. ASSUME next \in ColorSections
      PROVE  SeenLinks(next)' = {} /\ SeenIn(next)' = {}
  <2>1. doc' = doc /\ ColourLinks(next)' = ColourLinks(next)
    BY OnLeave, SameDocument
  <2>2. SeenLinks(next)' = {}
    BY <1>2, <2>1, OnLeave, InLinks DEF SeenLinks
  <2>3. SeenIn(next)' = {}
    BY <2>2 DEF SeenIn
  <2> QED
    BY <2>2, <2>3
<1> QED
  BY <1>1, <1>2

-----------------------------------------------------------------------------
(* The map of the colours.                                                 *)

LEMMA OverwritingOne ==
  ASSUME NEW a
  PROVE  /\ DOMAIN Overwriting(a) = DOMAIN colorMap \union {a.id}
         /\ Overwriting(a)[a.id] = a.says[1]
         /\ \A id \in DOMAIN colorMap : id # a.id => Overwriting(a)[id] = colorMap[id]
BY DEF Overwriting

LEMMA AddingOne ==
  ASSUME NEW a
  PROVE  /\ DOMAIN Adding(a) = DOMAIN colorMap \union {a.id}
         /\ \A id \in DOMAIN colorMap : Adding(a)[id] = colorMap[id]
BY OverwritingOne DEF Adding

\* How a step bears on the map.
LEMMA ColourSteps ==
  ASSUME [Next]_vars
  PROVE  \/ PriceGuide \/ LotsForSale \/ KnownColors
         \/ /\ colorMap' = colorMap
            /\ \/ \E s \in ColorSections : Enter(s)
               \/ Leave("Catalog", "Price Guide Info")
               \/ Leave("Price Guide Info", AfterPriceGuide)
               \/ Leave("Lots For Sale", "Known Colors")
               \/ Leave("Known Colors", "color list")
               \/ /\ {step, step'} \intersect ColorSections = {}
                  /\ step' = "Catalog" => step = "Catalog"
                  /\ step' \in GuideRead => step \in ColorsFound
               \/ UNCHANGED <<step, at, link>>
<1> USE DEF GuideRead, ColorsFound, ColorsListed, PartsListed, ColorSections
<1>1. CASE UNCHANGED vars
  BY <1>1 DEF vars, colorVars
<1>2. CASE FindBanner \/ ExtractPaginationInfo \/ ExtractItem \/ ExtractItems
  BY <1>2 DEF FindBanner, ExtractPaginationInfo, ExtractItem, ExtractItems, Enter, Leave, colorVars
<1>3. CASE Search
  BY <1>3 DEF Search, colorVars, Enter
<1>4. CASE SearchOver
  <2>1. colorMap' = colorMap
    BY <1>4 DEF SearchOver, colorVars
  <2>2. CASE \/ Leave("Item Appears In", "Item Consists Of")
             \/ Leave("Item Consists Of", "image")
             \/ Leave("image", "item parsed")
    BY <2>1, <2>2 DEF Leave
  <2> QED
    BY <1>4, <2>1, <2>2 DEF SearchOver
<1>5. CASE ListColor \/ ListColors
  BY <1>5 DEF ListColor, ListColors, colorVars
<1>6. CASE AddCrumb \/ AddAppearsIn \/ ConsistsOf \/ AddConsistsOf \/ ItemImage
  BY <1>6 DEF AddCrumb, AddAppearsIn, ConsistsOf, AddConsistsOf, ItemImage, Enter, Look, colorVars
<1> QED
  BY <1>1, <1>2, <1>3, <1>4, <1>5, <1>6 DEF Next, ParseCatalogPage, ParseItemDetails

\* A link of the price guide overwrites; so the last one counts.
LEMMA OverwritingKeepsLast ==
  ASSUME TypeOK, PriceGuide, LastNames(SeenLinks("Price Guide Info"))
  PROVE  LastNames(SeenLinks("Price Guide Info"))'
<1> DEFINE s == "Price Guide Info"
           new == <<at, link'>>
           a == doc[link']
           V == SeenLinks(s)
<1>1. /\ doc' = doc /\ step = s /\ s \in ColorSections /\ Look(s)
      /\ colorMap' = IF IsColour(step, a) THEN Overwriting(a) ELSE colorMap
  BY DEF PriceGuide, Look, ColorSections
<1>2. CASE ~IsColour(step, a)
  <2>1. SeenLinks(s)' = SeenLinks(s) /\ colorMap' = colorMap
    BY <1>1, <1>2, SeenOnLook
  <2> QED
    BY <1>1, <2>1 DEF LastNames, Later
<1>3. CASE IsColour(step, a)
  <2>1. /\ SeenLinks(s)' = V \union {new} /\ colorMap' = Overwriting(a)
        /\ \A v \in V : Later(v, new) /\ ~Later(new, v)
    BY <1>1, <1>3, SeenOnLook
  <2>2. ASSUME NEW v \in V \union {new},
               ~ \E w \in V \union {new} : doc[w[2]].id = doc[v[2]].id /\ Later(v, w)
        PROVE  /\ doc[v[2]].id \in DOMAIN Overwriting(a)
               /\ Overwriting(a)[doc[v[2]].id] = doc[v[2]].says[1]
    <3>1. CASE v = new
      BY <3>1, OverwritingOne
    <3>2. CASE v \in V /\ doc[v[2]].id = a.id
      BY <2>1, <2>2, <3>2
    <3>3. CASE v \in V /\ doc[v[2]].id # a.id
      BY <2>2, <3>3, OverwritingOne DEF LastNames
    <3> QED
      BY <3>1, <3>2, <3>3
  <2>3. \A v, w : Later(v, w)' <=> Later(v, w)
    BY DEF Later
  <2> QED
    BY <1>1, <2>1, <2>2, <2>3 DEF LastNames
<1> QED
  BY <1>2, <1>3

LEMMA NameStep ==
  ASSUME TypeOK, NameInv, [Next]_vars
  PROVE  NameInv'
<1> DEFINE s == "Price Guide Info"
<1>1. /\ doc' = doc /\ ColourLinks(s)' = ColourLinks(s)
      /\ s \in ColorSections /\ s \notin GuideRead
      /\ "Catalog" \notin GuideRead /\ ColorsFound \subseteq GuideRead
  BY DocumentStays, SameDocument
     DEF ColorSections, GuideRead, ColorsFound, ColorsListed, PartsListed
<1>3. CASE PriceGuide
  <2>1. step' = s /\ step = s
    BY <1>3 DEF PriceGuide, Look
  <2> QED
    BY <1>1, <1>3, <2>1, OverwritingKeepsLast DEF NameInv
<1>4. CASE LotsForSale \/ KnownColors
  <2>1. /\ step' = step /\ step # s
        /\ \A id \in DOMAIN colorMap : id \in DOMAIN colorMap' /\ colorMap'[id] = colorMap[id]
    BY <1>4, AddingOne DEF LotsForSale, KnownColors, Look
  <2>2. LastNames(ColourLinks(s)) => LastNames(ColourLinks(s))'
    BY <1>1, <2>1 DEF LastNames, Later
  <2> QED
    BY <1>1, <2>1, <2>2 DEF NameInv
<1>5. CASE colorMap' = colorMap
  <2>1. LastNames(ColourLinks(s)) => LastNames(ColourLinks(s))'
    BY <1>1, <1>5 DEF LastNames, Later
  <2>2. SeenLinks(s)' = SeenLinks(s) /\ LastNames(SeenLinks(s)) => LastNames(SeenLinks(s))'
    BY <1>1, <1>5 DEF LastNames, Later
  <2>3. CASE \E n \in ColorSections : Enter(n)
    <3>1. PICK n \in ColorSections : Enter(n)
      BY <2>3
    <3>2. step' = step /\ step = n
      BY <3>1, OnEnter
    <3>3. step = s => SeenLinks(s)' = SeenLinks(s)
      BY <1>1, <3>1, <3>2, SeenOnEnter
    <3> QED
      BY <2>1, <2>2, <3>2, <3>3 DEF NameInv
  <2>4. CASE Leave("Catalog", s)
    <3>1. step' = s /\ SeenLinks(s)' = {}
      BY <1>1, <2>4, OnLeave, SeenOnLeave
    <3>2. LastNames(SeenLinks(s))'
      BY <3>1 DEF LastNames
    <3> QED
      BY <1>1, <3>1, <3>2 DEF NameInv
  <2>5. CASE Leave(s, AfterPriceGuide)
    <3>1. PICK next : next = AfterPriceGuide
      OBVIOUS
    <3>2. next # s
      BY <3>1 DEF AfterPriceGuide
    <3>3. step = s /\ step' # s /\ SeenLinks(s) = ColourLinks(s)
      BY <1>1, <2>5, <3>1, <3>2, OnLeave, SeenOnLeave
    <3> QED
      BY <2>1, <3>3 DEF NameInv
  <2>6. CASE Leave("Lots For Sale", "Known Colors") \/ Leave("Known Colors", "color list")
    <3>1. step \in GuideRead /\ step' # s
      BY <2>6 DEF Leave, GuideRead, ColorsFound
    <3> QED
      BY <2>1, <3>1 DEF NameInv
  <2>7. CASE /\ {step, step'} \intersect ColorSections = {}
             /\ step' \in GuideRead => step \in ColorsFound
    BY <1>1, <2>1, <2>7 DEF NameInv
  <2>8. CASE UNCHANGED <<step, at, link>>
    <3>1. SeenLinks(s)' = SeenLinks(s)
      BY <1>1, <2>8 DEF SeenLinks, IsSeen
    <3> QED
      BY <2>1, <2>2, <2>8, <3>1 DEF NameInv
  <2> QED
    BY <1>3, <1>4, <2>3, <2>4, <2>5, <2>6, <2>7, <2>8, ColourSteps
<1> QED
  BY <1>3, <1>4, <1>5, ColourSteps

LEMMA ColorStep ==
  ASSUME TypeOK, ColorInv, [Next]_vars
  PROVE  ColorInv'
<1> DEFINE guide == "Price Guide Info"
           lots == "Lots For Sale"
           known == "Known Colors"
<1>1. /\ doc' = doc
      /\ \A s : ColourLinks(s)' = ColourLinks(s)
  BY DocumentStays, SameDocument
<1>2. (\A s : IdsIn(s)' = IdsIn(s)) /\ Found' = Found
  BY <1>1 DEF IdsIn, Found, IdsForSale
<1>3. /\ ColorSections = {guide, lots, known}
      /\ ColorsFound \intersect {"Catalog", guide, lots, known} = {}
      /\ ColorsFound \subseteq GuideRead /\ "color list" \in ColorsFound
  BY DEF ColorSections, GuideRead, ColorsFound, ColorsListed, PartsListed
<1>4. CASE PriceGuide
  <2>1. /\ step = guide /\ step' = guide /\ Look(guide)
        /\ colorMap' = IF IsColour(step, doc[link']) THEN Overwriting(doc[link']) ELSE colorMap
    BY <1>1, <1>4 DEF PriceGuide, Look
  <2>2. DOMAIN colorMap' = SeenIn(guide)'
    BY <1>3, <2>1, SeenOnLook, OverwritingOne DEF ColorInv
  <2> QED
    BY <1>3, <2>1, <2>2 DEF ColorInv
<1>5. CASE LotsForSale
  <2>1. /\ step = lots /\ step' = lots /\ Look(lots)
        /\ colorMap' = IF IsColour(step, doc[link']) THEN Adding(doc[link']) ELSE colorMap
    BY <1>1, <1>5 DEF LotsForSale, Look
  <2>2. DOMAIN colorMap' = IdsIn(guide) \union SeenIn(lots)'
    BY <1>3, <2>1, SeenOnLook, AddingOne DEF ColorInv
  <2> QED
    BY <1>2, <1>3, <2>1, <2>2 DEF ColorInv
<1>6. CASE KnownColors
  <2>1. /\ step = known /\ step' = known /\ Look(known)
        /\ colorMap' = IF IsColour(step, doc[link']) THEN Adding(doc[link']) ELSE colorMap
    BY <1>1, <1>6 DEF KnownColors, Look
  <2>2. DOMAIN colorMap' = Found \union SeenIn(known)'
    BY <1>3, <2>1, SeenOnLook, AddingOne DEF ColorInv
  <2> QED
    BY <1>2, <1>3, <2>1, <2>2 DEF ColorInv
<1>7. CASE colorMap' = colorMap
  <2>1. CASE \E n \in ColorSections : Enter(n)
    <3>1. PICK n \in ColorSections : Enter(n)
      BY <2>1
    <3>2. step' = step /\ step = n /\ SeenIn(n)' = SeenIn(n)
      BY <3>1, OnEnter, SeenOnEnter
    <3> QED
      BY <1>2, <1>3, <1>7, <3>2 DEF ColorInv
  <2>2. CASE Leave("Catalog", guide)
    <3>1. step = "Catalog" /\ step' = guide /\ SeenIn(guide)' = {}
      BY <1>3, <2>2, OnLeave, SeenOnLeave
    <3> QED
      BY <1>3, <1>7, <3>1 DEF ColorInv, GuideRead
  <2>3. CASE Leave(guide, AfterPriceGuide)
    <3>1. PICK next : next = AfterPriceGuide
      OBVIOUS
    <3>2. /\ step = guide /\ step' = next /\ SeenIn(guide) = IdsIn(guide)
          /\ next \in ColorSections => SeenIn(next)' = {}
      BY <1>3, <2>3, <3>1, OnLeave, SeenOnLeave
    <3>3. DOMAIN colorMap = IdsIn(guide)
      BY <3>2 DEF ColorInv
    <3>4. CASE Cardinality(DOMAIN colorMap) < Enough
      <4>1. next = lots
        BY <3>1, <3>4 DEF AfterPriceGuide
      <4> QED
        BY <1>2, <1>3, <1>7, <3>2, <3>3, <3>4, <4>1 DEF ColorInv
    <3>5. CASE ~(Cardinality(DOMAIN colorMap) < Enough)
      <4>1. next = known
        BY <3>1, <3>5 DEF AfterPriceGuide
      <4>2. Found = IdsIn(guide)
        BY <3>3, <3>5 DEF Found, IdsForSale
      <4> QED
        BY <1>2, <1>3, <1>7, <3>2, <3>3, <4>1, <4>2 DEF ColorInv
    <3> QED
      BY <3>4, <3>5
  <2>4. CASE Leave(lots, known)
    <3>1. /\ step = lots /\ step' = known /\ SeenIn(lots) = IdsIn(lots) /\ SeenIn(known)' = {}
      BY <1>3, <2>4, OnLeave, SeenOnLeave
    <3>2. DOMAIN colorMap = Found
      BY <3>1 DEF ColorInv, Found, IdsForSale
    <3> QED
      BY <1>2, <1>3, <1>7, <3>1, <3>2 DEF ColorInv
  <2>5. CASE Leave(known, "color list")
    <3>1. step = known /\ step' = "color list" /\ SeenIn(known) = IdsIn(known)
      BY <1>3, <2>5, OnLeave, SeenOnLeave
    <3> QED
      BY <1>2, <1>3, <1>7, <3>1 DEF ColorInv
  <2>6. CASE /\ {step, step'} \intersect ColorSections = {}
             /\ step' = "Catalog" => step = "Catalog"
             /\ step' \in GuideRead => step \in ColorsFound
    BY <1>2, <1>3, <1>7, <2>6 DEF ColorInv
  <2>7. CASE UNCHANGED <<step, at, link>>
    <3>1. \A s : SeenIn(s)' = SeenIn(s)
      BY <1>1, <2>7 DEF SeenIn, SeenLinks, IsSeen
    <3> QED
      BY <1>2, <1>7, <2>7, <3>1 DEF ColorInv
  <2> QED
    BY <1>4, <1>5, <1>6, <2>1, <2>2, <2>3, <2>4, <2>5, <2>6, <2>7, ColourSteps
<1> QED
  BY <1>4, <1>5, <1>6, <1>7, ColourSteps

-----------------------------------------------------------------------------
(* The list of the colours.                                                *)

LEMMA ListStep ==
  ASSUME TypeOK, ListInv, [Next]_vars
  PROVE  ListInv'
<1> USE DEF ColorsFound, ColorsListed, PartsListed
<1>1. CASE ListColor
  <2>1. PICK id \in DOMAIN colorMap \ Listed :
          colors' = Append(colors, [id |-> id, name |-> colorMap[id]])
    BY <1>1 DEF ListColor
  <2> DEFINE e == [id |-> id, name |-> colorMap[id]]
  <2>2. step = "color list" /\ step' = step /\ colorMap' = colorMap
    BY <1>1 DEF ListColor
  <2>3. e \in [id : Ids, name : Names] /\ colors \in Seq([id : Ids, name : Names])
    BY DEF TypeOK
  <2>4. /\ Len(colors) \in Nat /\ Len(colors') = Len(colors) + 1
        /\ DOMAIN colors = 1..Len(colors) /\ DOMAIN colors' = 1..(Len(colors) + 1)
        /\ \A n \in DOMAIN colors : colors'[n] = colors[n]
        /\ colors'[Len(colors) + 1] = e
    BY <2>1, <2>3, AppendTo
  <2>5. Listed' = Listed \union {id}
    <3>1. Listed' = {colors'[k].id : k \in DOMAIN colors \union {Len(colors) + 1}}
      BY <2>4 DEF Listed
    <3> QED
      BY <2>4, <3>1 DEF Listed
  <2>6. IsFiniteSet(Listed') /\ Cardinality(Listed') = Cardinality(Listed) + 1
    BY <2>1, <2>5, FS_AddElement DEF ListInv
  <2>7. \A k \in DOMAIN colors' : /\ colors'[k].id \in DOMAIN colorMap'
                                  /\ colors'[k].name = colorMap'[colors'[k].id]
    <3>1. ASSUME NEW k \in DOMAIN colors
          PROVE  /\ colors'[k].id \in DOMAIN colorMap'
                 /\ colors'[k].name = colorMap'[colors'[k].id]
      BY <2>2, <2>4 DEF ListInv
    <3>2. e.id = id /\ e.name = colorMap[id]
      OBVIOUS
    <3>3. /\ colors'[Len(colors) + 1].id \in DOMAIN colorMap'
          /\ colors'[Len(colors) + 1].name = colorMap'[colors'[Len(colors) + 1].id]
      <4> HIDE DEF e
      <4> QED
        BY <2>1, <2>2, <2>4, <3>2
    <3>4. DOMAIN colors' = DOMAIN colors \union {Len(colors) + 1}
      BY <2>4
    <3> QED
      BY <3>1, <3>3, <3>4
  <2> QED
    BY <2>2, <2>4, <2>6, <2>7 DEF ListInv
<1>2. CASE ListColors
  BY <1>2 DEF ListColors, ListInv, Listed, colorVars
<1>3. CASE PriceGuide \/ LotsForSale \/ KnownColors
  <2>1. step' = step /\ step \in ColorSections /\ colors' = colors
    BY <1>3 DEF PriceGuide, LotsForSale, KnownColors, Look, ColorSections
  <2>2. colors = << >> /\ Listed' = Listed
    BY <2>1 DEF ListInv, ColorSections, Listed
  <2>3. colors' = << >> /\ DOMAIN colors' = {}
    BY <2>1, <2>2
  <2>4. IsFiniteSet(Listed') /\ Len(colors') = Cardinality(Listed')
    BY <2>1, <2>2 DEF ListInv
  <2>5. step' \notin ColorsListed
    BY <2>1 DEF ColorSections
  <2> QED
    BY <2>3, <2>4, <2>5 DEF ListInv
<1>4. CASE /\ UNCHANGED <<colors, colorMap>>
           /\ step' \in ColorsListed <=> step \in ColorsListed
           /\ step \in ColorsFound => step' \in ColorsFound
  <2>1. Listed' = Listed
    BY <1>4 DEF Listed
  <2> QED
    BY <1>4, <2>1 DEF ListInv
<1>5. CASE ExtractPaginationInfo \/ ExtractItems \/ SearchOver
  <2>1. UNCHANGED <<colors, colorMap>>
    BY <1>5 DEF ExtractPaginationInfo, ExtractItems, SearchOver, colorVars
  <2>2. /\ step' \in ColorsListed <=> step \in ColorsListed
        /\ step \in ColorsFound => step' \in ColorsFound
    BY <1>5 DEF ExtractPaginationInfo, ExtractItems, SearchOver, Leave, AfterPriceGuide
  <2> QED
    BY <1>4, <2>1, <2>2
<1> QED
  BY <1>1, <1>2, <1>3, <1>4, <1>5, Frames

-----------------------------------------------------------------------------
(* The inventories.                                                        *)

LEMMA PartsStep ==
  ASSUME TypeOK, PartsInv, [Next]_vars
  PROVE  PartsInv'
<1>1. /\ doc' = doc
      /\ Places(Header)' = Places(Header)
      /\ \A i : Links(Header, i)' = Links(Header, i)
      /\ \A i : NA(i)' <=> NA(i)
      /\ \A i : i \in Places(Header) => i \in Nat \ {0}
  BY DocumentStays, SameDocument, InDocument DEF NA
<1>2. \A i, k : k \in Links(Header, i) => ~NA(i)
  BY DEF Links, NA, Header, ColorSections
<1>3. Below' = Below
  BY <1>1 DEF Below
<1>4. CASE ConsistsOf
  <2>1. /\ step = Header /\ step' = Header /\ at' \in Places(Header)
        /\ \A i \in Places(Header) : i <= at' <=> i <= at \/ i = at'
        /\ \A i \in Places(Header) : \A k \in Links(Header, i) : IsSeen(i, k)' <=> IsSeen(i, k)
        /\ consistsOf' = IF NA(at') THEN << >> ELSE consistsOf
    BY <1>4, OnEnter, DocumentStays, SameDocument DEF ConsistsOf, Header, NA
  <2>2. CASE NA(at')
    <3>1. ASSUME NEW i \in Places(Header), NEW k \in Links(Header, i), IsSeen(i, k)'
          PROVE  ~Since(i)'
      <4>1. i <= at'
        BY <3>1, <1>1, <2>1, InDocument DEF IsSeen
      <4> QED
        BY <1>1, <2>1, <2>2, <4>1 DEF Since
    <3>2. Kept' = {}
      BY <1>1, <3>1 DEF Kept
    <3>3. consistsOf' = << >> /\ DOMAIN consistsOf' = {}
      BY <2>1, <2>2
    <3>4. Parts' = {}
      BY <3>3 DEF Parts
    <3> QED
      BY <2>1, <3>2, <3>4 DEF PartsInv, Header, PartsListed
  <2>3. CASE ~NA(at')
    <3>1. \A i \in Places(Header) : Since(i)' <=> Since(i)
      BY <1>1, <2>1, <2>3 DEF Since
    <3>2. Kept' = Kept
      BY <1>1, <2>1, <3>1 DEF Kept
    <3>3. Parts' = Parts
      BY <2>1, <2>3 DEF Parts
    <3> QED
      BY <1>1, <2>1, <3>2, <3>3 DEF PartsInv, Header, PartsListed
  <2> QED
    BY <2>2, <2>3
<1>5. CASE AddConsistsOf
  <2>1. /\ step = Header /\ step' = Header /\ at' = at
        /\ at \in Places(Header) /\ link' \in Links(Header, at) /\ link' \in DOMAIN doc
        /\ \A i \in Places(Header) : \A k \in Links(Header, i) :
             IsSeen(i, k)' <=> IsSeen(i, k) \/ (i = at /\ k = link')
        /\ doc[link'].id \in Ids
        /\ consistsOf' = Append(consistsOf, doc[link'].id)
    BY <1>1, <1>5, OnLook, LookTypes DEF AddConsistsOf, Header
  <2>2. \A i : Since(i)' <=> Since(i)
    BY <1>1, <2>1 DEF Since
  <2>3. Since(at)
    BY <1>1, <1>2, <2>1, InDocument DEF Since
  <2>4. Kept' = Kept \union {link'}
    BY <1>1, <2>1, <2>2, <2>3 DEF Kept
  <2>5. Parts' = Parts \union {doc[link'].id}
    <3>1. /\ Len(consistsOf) \in Nat
          /\ DOMAIN consistsOf' = DOMAIN consistsOf \union {Len(consistsOf) + 1}
          /\ \A n \in DOMAIN consistsOf : consistsOf'[n] = consistsOf[n]
          /\ consistsOf'[Len(consistsOf) + 1] = doc[link'].id
      <4>1. consistsOf \in Seq(Ids)
        BY DEF TypeOK
      <4> QED
        BY <2>1, <4>1, AppendTo
    <3> QED
      BY <3>1 DEF Parts
  <2>6. {doc[k].id : k \in Kept'} = {doc[k].id : k \in Kept} \union {doc[link'].id}
    BY <2>4
  <2> QED
    BY <1>1, <2>1, <2>5, <2>6 DEF PartsInv, Header, PartsListed
<1>6. CASE consistsOf' = consistsOf /\ SearchOver
  <2>1. Parts' = Parts
    BY <1>6 DEF Parts
  <2>2. CASE Leave("Item Appears In", Header)
    <3>1. Kept' = {} /\ step = "Item Appears In" /\ step' = Header
      BY <1>1, <2>2, OnLeave DEF Kept
    <3>2. consistsOf = << >>
      BY <3>1 DEF PartsInv, Header, PartsListed
    <3>3. Parts = {}
      BY <3>2 DEF Parts
    <3> QED
      BY <2>1, <3>1, <3>3 DEF PartsInv, Header, PartsListed
  <2>3. CASE Leave(Header, "image")
    <3>1. /\ step = Header /\ step' = "image"
          /\ \A i \in Places(Header) : i <= at
          /\ \A i \in Places(Header) : \A k \in Links(Header, i) : IsSeen(i, k)
      BY <2>3, OnLeave
    <3>2. Kept = Below
      BY <3>1 DEF Kept, Below, Since
    <3> QED
      BY <1>1, <1>3, <2>1, <3>1, <3>2 DEF PartsInv, Header, PartsListed
  <2>4. CASE Leave("image", "item parsed")
    <3>1. step = "image" /\ step' = "item parsed"
      BY <2>4, OnLeave
    <3> QED
      BY <1>1, <1>3, <2>1, <3>1 DEF PartsInv, Header, PartsListed
  <2>5. CASE step' \notin PartsListed \union {Header} /\ step \notin PartsListed \union {Header}
    BY <1>6, <2>5 DEF PartsInv, Header, PartsListed
  <2> QED
    BY <1>6, <2>2, <2>3, <2>4, <2>5 DEF SearchOver, Leave, AfterPriceGuide, Header, PartsListed
<1>7. CASE /\ consistsOf' = consistsOf
           /\ step' = step /\ (step = Header => UNCHANGED <<at, link>>)
  <2>1. Parts' = Parts
    BY <1>7 DEF Parts
  <2>2. step = Header => Kept' = Kept
    BY <1>1, <1>7 DEF Kept, IsSeen, Since
  <2> QED
    BY <1>1, <1>3, <1>7, <2>1, <2>2 DEF PartsInv
<1>8. CASE /\ consistsOf' = consistsOf
           /\ step \notin PartsListed \union {Header} /\ step' \notin PartsListed \union {Header}
  BY <1>8 DEF PartsInv, Header, PartsListed
<1> USE DEF Header, PartsListed
<1>9. CASE ExtractPaginationInfo \/ ExtractItems \/ ListColors
  BY <1>8, <1>9 DEF ExtractPaginationInfo, ExtractItems, ListColors, Leave, listVars
<1>10. CASE FindBanner \/ ExtractItem \/ Search \/ ItemImage
  BY <1>7, <1>10 DEF FindBanner, ExtractItem, Search, ItemImage, Enter, ColorSections, listVars,
                     Titles
<1>11. CASE \/ AddCrumb \/ AddAppearsIn \/ PriceGuide \/ LotsForSale \/ KnownColors
            \/ ListColor
  BY <1>7, <1>11 DEF AddCrumb, AddAppearsIn, PriceGuide, LotsForSale, KnownColors, ListColor,
                     Look, listVars
<1>12. CASE UNCHANGED vars
  BY <1>7, <1>12 DEF vars, listVars
<1>13. CASE SearchOver
  BY <1>6, <1>13 DEF SearchOver, listVars
<1> QED
  BY <1>4, <1>5, <1>9, <1>10, <1>11, <1>12, <1>13
     DEF Next, ParseCatalogPage, ParseItemDetails

-----------------------------------------------------------------------------
(* The theorems.                                                           *)

LEMMA InitInv ==
  ASSUME Init
  PROVE  ParserInv
<1> USE DEF Init
<1>1. doc \in Documents /\ step \in {"pagination", "Catalog"} /\ at = 0 /\ link = 0
  BY DEF Documents
<1>2. /\ colorMap = << >> /\ DOMAIN colorMap = {} /\ colors = << >> /\ DOMAIN colors = {}
      /\ consistsOf = << >>
  OBVIOUS
<1>3. TypeOK
  <2>1. step \in ItemSteps \union PageSteps
    BY <1>1 DEF ItemSteps, PageSteps
  <2>2. \A S : << >> \in Seq(S)
    OBVIOUS
  <2>3. colorMap \in [DOMAIN colorMap -> Names] /\ DOMAIN colorMap \subseteq Ids
    BY <1>2
  <2> QED
    BY <1>1, <2>1, <2>2, <2>3 DEF TypeOK
<1>4. PageInv
  BY <1>1 DEF PageInv
<1>5. NameInv
  BY <1>1 DEF NameInv, GuideRead, ColorsFound, ColorsListed, PartsListed
<1>6. ColorInv
  BY <1>1, <1>2 DEF ColorInv, ColorsFound, ColorsListed, PartsListed
<1>7. ListInv
  <2>1. Listed = {} /\ Len(colors) = 0
    BY <1>2 DEF Listed
  <2>2. IsFiniteSet(Listed) /\ Len(colors) = Cardinality(Listed)
    BY <2>1, FS_EmptySet
  <2> QED
    BY <1>1, <1>2, <2>2 DEF ListInv, ColorsListed, PartsListed
<1>8. PartsInv
  BY <1>1, <1>2 DEF PartsInv, PartsListed, Header
<1> QED
  BY <1>3, <1>4, <1>5, <1>6, <1>7, <1>8 DEF ParserInv

\* The inductive invariant: at every call of a callback, what has been collected is what
\* the part of the section that was searched so far, and the sections before it, have.
THEOREM ParserInvariant == Spec => []ParserInv
<1>1. Init => ParserInv
  BY InitInv
<1>2. ParserInv /\ [Next]_vars => ParserInv'
  BY TypeStep, PageStep, NameStep, ColorStep, ListStep, PartsStep DEF ParserInv
<1> QED
  BY <1>1, <1>2, PTL DEF Spec

\* The types of what is collected: the ids and names are those of the document.
THEOREM TypeCorrect == Spec => []TypeOK
<1>1. ParserInv => TypeOK
  BY DEF ParserInv
<1> QED
  BY <1>1, ParserInvariant, PTL

\* The elements inside another one come after it: so the last banner is an innermost one.
LEMMA LastIsInnermost ==
  ASSUME TypeOK, NEW i \in DOMAIN doc, FromBanner(i)
  PROVE  \A j \in Inside(i) : ~IsBanner(j)
<1>1. \A j \in Inside(i) : j \in DOMAIN doc /\ j > i /\ j \in Nat /\ i \in Nat
  BY InDocument DEF Inside
<1> QED
  BY <1>1 DEF FromBanner

\* A number is the first of its kind in the text of its element, or 0 if there is none.
LEMMA NumberSaid ==
  ASSUME TypeOK, NEW i \in DOMAIN doc, NEW wording, NEW place
  PROVE  \/ Numbered(i, wording) = {} /\ NumberIn(i, wording, place) = 0
         \/ \E k \in Numbered(i, wording) :
              /\ \A other \in Numbered(i, wording) : k <= other
              /\ NumberIn(i, wording, place) = doc[k].says[place]
<1> DEFINE S == Numbered(i, wording)
<1>1. S \in SUBSET Nat
  BY InDocument DEF Numbered, Text, Inside
<1>2. CASE S = {}
  BY <1>2 DEF NumberIn
<1>3. CASE S # {}
  <2>1. \E k \in S : \A other \in S : k <= other
    BY <1>1, <1>3, LeastNumber
  <2>2. First(S) \in S /\ \A other \in S : First(S) <= other
    BY <2>1 DEF First
  <2>3. NumberIn(i, wording, place) = doc[First(S)].says[place]
    BY <1>3 DEF NumberIn
  <2> QED
    BY <2>2, <2>3
<1> QED
  BY <1>2, <1>3

\* The numbers of a page are those of one element with the words, the innermost, whatever
\* is said around it (catalog_parser.go:55 to 119).
THEOREM OneBannerIsRead == Spec => []PaginationOfOneBanner
<1>1. ParserInv => PaginationOfOneBanner
  <2> SUFFICES ASSUME ParserInv PROVE PaginationOfOneBanner
    OBVIOUS
  <2> USE DEF ParserInv
  <2>1. CASE step \in {"items", "page parsed"}
    <3>1. PICK i \in DOMAIN doc : FromBanner(i)
      BY <2>1 DEF PageInv
    <3>2. IsBanner(i) /\ page = Pagination(i) /\ \A j \in Inside(i) : ~IsBanner(j)
      BY <3>1, LastIsInnermost DEF FromBanner
    <3>3. /\ page.found = NumberIn(i, "Items Found", 2)
          /\ page.number = NumberIn(i, "Page of", 2)
          /\ page.total = NumberIn(i, "Page of", 3)
          /\ page.perPage = NumberIn(i, "Items Per Page", 2)
      BY <3>2 DEF Pagination
    <3> DEFINE Said(n, wording, place) ==
                 \/ Numbered(i, wording) = {} /\ n = 0
                 \/ \E k \in Numbered(i, wording) :
                      /\ \A other \in Numbered(i, wording) : k <= other
                      /\ n = doc[k].says[place]
    <3>4. \A wording, place : Said(NumberIn(i, wording, place), wording, place)
      BY NumberSaid
    <3>5. /\ Said(page.found, "Items Found", 2)
          /\ Said(page.number, "Page of", 2)
          /\ Said(page.total, "Page of", 3)
          /\ Said(page.perPage, "Items Per Page", 2)
      <4> HIDE DEF Said
      <4> QED
        BY <3>3, <3>4
    <3> QED
      BY <3>2, <3>5, Zenon DEF PaginationOfOneBanner
  <2>2. CASE step \notin {"items", "page parsed"}
    BY <2>2 DEF PageInv, PaginationOfOneBanner
  <2> QED
    BY <2>1, <2>2
<1> QED
  BY <1>1, ParserInvariant, PTL

\* A colour of the price guide is listed with the name of its last link there
\* (catalog_parser.go:309 overwrites, 342 and 376 do not).
THEOREM PriceGuideCounts == Spec => []PriceGuideNames
<1>1. ParserInv => PriceGuideNames
  <2> SUFFICES ASSUME ParserInv, Parsed, NEW v \in ColourLinks("Price Guide Info"),
                      ~ \E w \in ColourLinks("Price Guide Info") :
                           doc[w[2]].id = doc[v[2]].id /\ Later(v, w)
               PROVE  \E k \in DOMAIN colors :
                        colors[k] = [id |-> doc[v[2]].id, name |-> doc[v[2]].says[1]]
    BY DEF PriceGuideNames, Later
  <2>1. step \in GuideRead /\ step \in ColorsListed
    BY DEF Parsed, GuideRead, ColorsFound, ColorsListed, PartsListed
  <2>2. doc[v[2]].id \in DOMAIN colorMap /\ colorMap[doc[v[2]].id] = doc[v[2]].says[1]
    BY <2>1 DEF ParserInv, NameInv, LastNames
  <2>3. doc[v[2]].id \in Listed
    BY <2>1, <2>2 DEF ParserInv, ListInv
  <2>4. PICK k \in DOMAIN colors : colors[k].id = doc[v[2]].id
    BY <2>3 DEF Listed
  <2>5. colors[k].name = doc[v[2]].says[1]
    BY <2>2, <2>4 DEF ParserInv, ListInv
  <2>6. colors[k] \in [id : Ids, name : Names]
    <3>1. colors \in Seq([id : Ids, name : Names])
      BY DEF ParserInv, TypeOK
    <3> QED
      BY <3>1, ElementOf
  <2>7. colors[k] = [id |-> colors[k].id, name |-> colors[k].name]
    BY <2>6
  <2> QED
    BY <2>4, <2>5, <2>7
<1> QED
  BY <1>1, ParserInvariant, PTL

\* Every colour is listed once: those of the price guide, the known ones, and those for
\* sale if the price guide has too few (catalog_parser.go:281 to 391).
THEOREM AllColorsListed == Spec => []ColorsComplete
<1>1. ParserInv => ColorsComplete
  <2> SUFFICES ASSUME ParserInv, Parsed
               PROVE  /\ Listed = Found \union IdsIn("Known Colors")
                      /\ Len(colors) = Cardinality(Listed)
    BY DEF ColorsComplete, Found, IdsForSale, IdsIn
  <2>1. step \in ColorsFound /\ step \in ColorsListed
    BY DEF Parsed, ColorsFound, ColorsListed, PartsListed
  <2>2. DOMAIN colorMap = Found \union IdsIn("Known Colors")
    BY <2>1 DEF ParserInv, ColorInv
  <2>3. Listed = DOMAIN colorMap
    BY <2>1 DEF ParserInv, ListInv, Listed
  <2> QED
    BY <2>2, <2>3 DEF ParserInv, ListInv
<1> QED
  BY <1>1, ParserInvariant, PTL

\* The inventories listed are those of the cells below the last cell without parts, which
\* empties the list (catalog_parser.go:412 to 434).
THEOREM PartsBelowNA == Spec => []NoPartsAboveNA
<1>1. ParserInv => NoPartsAboveNA
  <2> SUFFICES ASSUME ParserInv, Parsed
               PROVE  NoPartsAboveNA
    BY DEF NoPartsAboveNA
  <2> DEFINE headers == {i \in DOMAIN doc : doc[i].tag = "header"
                                            /\ doc[i].says[1] = "Item Consists Of"}
             below == {i \in headers : \A j \in headers : j >= i => ~HasText(Parent(j), "N/A")}
             beside == {k \in DOMAIN doc : /\ doc[k].tag = "inventory"
                                           /\ \E i \in below : k \in Inside(Parent(i))}
  <2>1. Parts = {doc[k].id : k \in Below}
    BY DEF ParserInv, PartsInv, Parsed, PartsListed
  <2>2. headers = Places(Header)
    BY DEF Places, Header, Titles, ColorSections
  <2>3. \A i, k : k \in Links(Header, i) <=>
                   /\ ~NA(i) /\ k \in Inside(Parent(i)) /\ k \in DOMAIN doc
                   /\ doc[k].tag = "inventory"
    BY DEF Links, Find, NA, Header, ColorSections
  <2>4. \A i, j \in headers : i <= j <=> j >= i
    BY <2>2, InDocument DEF ParserInv
  <2>5. \A i \in headers : i <= i
    <3>1. \A i \in Places(Header) : i \in Nat
      BY InDocument DEF ParserInv
    <3> HIDE DEF headers
    <3> QED
      BY <2>2, <3>1
  <2>6. beside = Below
    <3> HIDE DEF headers
    <3>1. \A i \in headers : i \in below <=> \A j \in Places(Header) : i <= j => ~NA(j)
      BY <2>2, <2>4 DEF NA
    <3>2. \A i \in below : i \in headers /\ ~NA(i)
      BY <2>2, <2>5, <3>1
    <3> QED
      BY <2>2, <2>3, <3>1, <3>2 DEF Below
  <2> QED
    BY <2>1, <2>6 DEF NoPartsAboveNA, Parts
<1> QED
  BY <1>1, ParserInvariant, PTL

=============================================================================
