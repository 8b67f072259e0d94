---------------------------- MODULE CatalogParser ----------------------------
(***************************************************************************)
(* catalogParser: what is read from a page of the catalog and from the     *)
(* page of an item.                                                        *)
(*                                                                         *)
(* A document is the sequence of its elements in document order.  An       *)
(* element has                                                             *)
(*   tag    what the selectors can tell of it,                             *)
(*   depth  how deep it is nested,                                         *)
(*   says   its own text, with the numbers or the name in it,              *)
(*   id     the item, colour or list its address names.                    *)
(* The text of an element is its own and that of the elements inside it,   *)
(* so a row of an outer table has the texts of all the rows in it.         *)
(*                                                                         *)
(* The parser searches the document section by section: doc.Find(..).Each  *)
(* with a callback, in which there may be a Find(..).Each of the links.    *)
(* A step is one call of a callback.                                       *)
(***************************************************************************)
EXTENDS Integers, Sequences, FiniteSets

CONSTANTS
  CatalogPages,  \* the documents ParseCatalogPage is called with
  ItemPages,     \* the documents ParseItemDetails is called with
  Enough         \* so many colours of the price guide are enough (5)

ASSUME DocumentsAssumption ==
  \A d \in CatalogPages \union ItemPages : Len(d) \in Nat /\ DOMAIN d = 1..Len(d)
ASSUME EnoughAssumption == Enough \in Nat \ {0}

VARIABLES
  doc,         \* the document
  step,        \* the section searched, or how the parser has returned
  at,          \* the element the outer callback was last called with, or 0
  link,        \* the link the inner callback was last called with, or 0
  page,        \* CatalogPage: the numbers of the pagination
  items,       \* CatalogPage.Items
  colorMap,    \* the name of each colour id
  colors,      \* the lists of PartDetails
  crumbs,
  appearsIn,
  consistsOf,
  image        \* ItemImageURL, or 0

pageVars == <<page, items>>
colorVars == <<colorMap, colors>>
listVars == <<crumbs, appearsIn, consistsOf, image>>
vars == <<doc, step, at, link, pageVars, colorVars, listVars>>

-----------------------------------------------------------------------------
(* The document.                                                           *)

\* The elements inside element i: those up to the next that is not nested deeper.
Inside(i) ==
  {j \in DOMAIN doc : j > i /\ \A k \in (i + 1)..j : doc[k].depth > doc[i].depth}

\* s.Find.
Find(i, tag) == {k \in Inside(i) : doc[k].tag = tag}

\* The elements whose own texts make up s.Text, and strings.Contains of it.
Text(i) == {i} \union Inside(i)
HasText(i, wording) == \E k \in Text(i) : doc[k].says[1] = wording

\* strings.HasPrefix: no other text comes before the wording.
StartsWith(i, wording) ==
  \E k \in Text(i) : /\ doc[k].says[1] = wording
                     /\ \A other \in Text(i) : other < k => doc[other].says[1] = ""

\* s.Parent.
Parent(i) ==
  CHOOSE j \in 1..(i - 1) : /\ doc[j].depth < doc[i].depth
                            /\ \A k \in (j + 1)..(i - 1) : doc[k].depth >= doc[i].depth

-----------------------------------------------------------------------------
(* The sections of a page: where the outer callback does something, and    *)
(* the links the inner one is called with there.                           *)

ColorSections == {"Price Guide Info", "Lots For Sale", "Known Colors"}
Titles == {"Item Appears In", "Item Consists Of"}

\* "Items Found", "Page" and "of".  "Items Per Page" has a "Page" in it, too.
IsBanner(i) ==
  /\ HasText(i, "Items Found")
  /\ HasText(i, "Page of") \/ (HasText(i, "Items Per Page") /\ HasText(i, "of"))

Places(s) ==
  {i \in DOMAIN doc :
     \/ s = "pagination" /\ IsBanner(i)
     \/ s = "items" /\ doc[i].tag = "item"
     \/ s = "Catalog" /\ doc[i].tag = "cell" /\ StartsWith(i, s)
     \/ s \in ColorSections /\ doc[i].tag = "row" /\ HasText(i, s)
     \/ s \in Titles /\ doc[i].tag = "header" /\ doc[i].says[1] = s
     \/ s = "image" /\ doc[i].tag = "image"}

\* The links beside a header are those in its cell: none if the cell says so.
Links(s, i) ==
  {k \in DOMAIN doc :
     \/ s = "Catalog" /\ k \in Find(i, "category")
     \/ s \in ColorSections /\ k \in Find(i, "colour")
     \/ s = "Item Appears In" /\ k \in Find(Parent(i), "set")
     \/ /\ s = "Item Consists Of" /\ k \in Find(Parent(i), "inventory")
        /\ ~HasText(Parent(i), "N/A")}

\* j is the first element of S after i.
ComesNext(j, S, i) == j \in S /\ j > i /\ \A k \in S : k > i => j <= k

\* The inner search is over.
LookedAt(s) == at # 0 => \A k \in Links(s, at) : k <= link

\* The outer callback is called with the next element.
Enter(s) ==
  /\ step = s
  /\ LookedAt(s)
  /\ \E i \in Places(s) : ComesNext(i, Places(s), at) /\ at' = i
  /\ link' = 0
  /\ UNCHANGED <<doc, step>>

\* The inner callback is called with the next link.
Look(s) ==
  /\ step = s
  /\ at # 0
  /\ \E k \in Links(s, at) : ComesNext(k, Links(s, at), link) /\ link' = k
  /\ UNCHANGED <<doc, step, at>>

\* The whole document has been searched.
Leave(s, next) ==
  /\ step = s
  /\ LookedAt(s)
  /\ \A i \in Places(s) : i <= at
  /\ step' = next
  /\ at' = 0
  /\ link' = 0
  /\ UNCHANGED doc

-----------------------------------------------------------------------------
(* ParseCatalogPage.                                                       *)

NoPage == [found |-> 0, number |-> 0, total |-> 0, perPage |-> 0]

\* The elements of a text with numbers that are read by a pattern, and the number at a
\* place of the first match: 0 when there is none.
First(S) == CHOOSE k \in S : \A other \in S : k <= other
Numbered(i, wording) == {k \in Text(i) : doc[k].says[1] = wording /\ Len(doc[k].says) > 1}
NumberIn(i, wording, place) ==
  LET matches == Numbered(i, wording)
  IN  IF matches = {} THEN 0 ELSE doc[First(matches)].says[place]

Pagination(i) ==
  [found   |-> NumberIn(i, "Items Found", 2),
   number  |-> NumberIn(i, "Page of", 2),
   total   |-> NumberIn(i, "Page of", 3),
   perPage |-> NumberIn(i, "Items Per Page", 2)]

\* The callback keeps the text of the element.  Its return does not end the search.
FindBanner ==
  /\ Enter("pagination")
  /\ UNCHANGED <<pageVars, colorVars, listVars>>

\* Plausible bug: the numbers are read from the text of the whole document.
ExtractPaginationInfoOfAll ==
  /\ \/ at # 0 /\ Leave("pagination", "items") /\ page' = Pagination(1)
     \/ at = 0 /\ Leave("pagination", "failed") /\ UNCHANGED page
  /\ UNCHANGED <<items, colorVars, listVars>>

\* The text kept last counts.  The second search, for one text that has all the numbers,
\* can find nothing: the document would be a banner.  Nor can a page count as a single
\* one for the items on it, as they have not been read yet.
ExtractPaginationInfo ==
  /\ \/ at # 0 /\ Leave("pagination", "items") /\ page' = Pagination(at)
     \/ at = 0 /\ Leave("pagination", "failed") /\ UNCHANGED page
  /\ UNCHANGED <<items, colorVars, listVars>>

ExtractItem ==
  /\ Enter("items")
  /\ items' = Append(items, doc[at'].id)
  /\ UNCHANGED <<page, colorVars, listVars>>

ExtractItems ==
  /\ Leave("items", "page parsed")
  /\ UNCHANGED <<pageVars, colorVars, listVars>>

-----------------------------------------------------------------------------
(* ParseItemDetails: the colours.                                          *)

\* A link of a colour whose text can be the name of one.  The search of the known colours
\* takes "View All Colors" for a name.
IsColour(s, a) ==
  /\ a.says[1] \notin {"", "count"}
  /\ s # "Known Colors" => a.says[1] # "View All Colors"

Overwriting(a) ==
  [id \in DOMAIN colorMap \union {a.id} |-> IF id = a.id THEN a.says[1] ELSE colorMap[id]]
Adding(a) == IF a.id \in DOMAIN colorMap THEN colorMap ELSE Overwriting(a)

\* Plausible bug: here, too, a colour is only added when it is new.
PriceGuideAdding ==
  /\ Look("Price Guide Info")
  /\ colorMap' = IF IsColour(step, doc[link']) THEN Adding(doc[link']) ELSE colorMap
  /\ UNCHANGED <<pageVars, colors, listVars>>

PriceGuide ==
  /\ Look("Price Guide Info")
  /\ colorMap' = IF IsColour(step, doc[link']) THEN Overwriting(doc[link']) ELSE colorMap
  /\ UNCHANGED <<pageVars, colors, listVars>>

LotsForSale ==
  /\ Look("Lots For Sale")
  /\ colorMap' = IF IsColour(step, doc[link']) THEN Adding(doc[link']) ELSE colorMap
  /\ UNCHANGED <<pageVars, colors, listVars>>

KnownColors ==
  /\ Look("Known Colors")
  /\ colorMap' = IF IsColour(step, doc[link']) THEN Adding(doc[link']) ELSE colorMap
  /\ UNCHANGED <<pageVars, colors, listVars>>

\* Plausible bug: the lots are looked at whatever the price guide has.
AfterPriceGuideAlways == "Lots For Sale"

AfterPriceGuide ==
  IF Cardinality(DOMAIN colorMap) < Enough THEN "Lots For Sale" ELSE "Known Colors"

\* A map is ranged over in any order.
Listed == {colors[k].id : k \in DOMAIN colors}
ListColor ==
  /\ step = "color list"
  /\ \E id \in DOMAIN colorMap \ Listed :
       colors' = Append(colors, [id |-> id, name |-> colorMap[id]])
  /\ UNCHANGED <<doc, step, at, link, pageVars, colorMap, listVars>>

ListColors ==
  /\ step = "color list"
  /\ DOMAIN colorMap \subseteq Listed
  /\ step' = "Item Appears In"
  /\ UNCHANGED <<doc, at, link, pageVars, colorVars, listVars>>

-----------------------------------------------------------------------------
(* ParseItemDetails: the breadcrumb, the lists and the image.              *)

\* extractSubcategoryHierarchy.  The callback's return does not end the search: every
\* cell that starts like a breadcrumb adds its links.
AddCrumb ==
  /\ Look("Catalog")
  /\ crumbs' = IF doc[link'].says[1] \in {"", "Catalog"} THEN crumbs
               ELSE Append(crumbs, doc[link'].id)
  /\ UNCHANGED <<pageVars, colorVars, appearsIn, consistsOf, image>>

AddAppearsIn ==
  /\ Look("Item Appears In")
  /\ appearsIn' = Append(appearsIn, doc[link'].id)
  /\ UNCHANGED <<pageVars, colorVars, crumbs, consistsOf, image>>

\* Plausible bug: a cell without parts leaves the list as it is.
ConsistsOfKept ==
  /\ Enter("Item Consists Of")
  /\ UNCHANGED <<pageVars, colorVars, listVars>>

\* A cell without parts empties the list.
ConsistsOf ==
  /\ Enter("Item Consists Of")
  /\ consistsOf' = IF HasText(Parent(at'), "N/A") THEN << >> ELSE consistsOf
  /\ UNCHANGED <<pageVars, colorVars, crumbs, appearsIn, image>>

AddConsistsOf ==
  /\ Look("Item Consists Of")
  /\ consistsOf' = Append(consistsOf, doc[link'].id)
  /\ UNCHANGED <<pageVars, colorVars, crumbs, appearsIn, image>>

\* The first image is the item's.
ItemImage ==
  /\ Enter("image")
  /\ image' = IF at = 0 THEN doc[at'].id ELSE image
  /\ UNCHANGED <<pageVars, colorVars, crumbs, appearsIn, consistsOf>>

\* The other outer callbacks only look for links.
Search ==
  /\ \E s \in {"Catalog", "Item Appears In"} \union ColorSections : Enter(s)
  /\ UNCHANGED <<pageVars, colorVars, listVars>>

\* A section is over.
SearchOver ==
  /\ \/ Leave("Catalog", "Price Guide Info")
     \/ Leave("Price Guide Info", AfterPriceGuide)
     \/ Leave("Lots For Sale", "Known Colors")
     \/ Leave("Known Colors", "color list")
     \/ Leave("Item Appears In", "Item Consists Of")
     \/ Leave("Item Consists Of", "image")
     \/ Leave("image", "item parsed")
  /\ UNCHANGED <<pageVars, colorVars, listVars>>

-----------------------------------------------------------------------------

\* A call of ParseCatalogPage or of ParseItemDetails.
Init ==
  /\ \/ step = "pagination" /\ doc \in CatalogPages
     \/ step = "Catalog" /\ doc \in ItemPages
  /\ at = 0
  /\ link = 0
  /\ page = NoPage
  /\ items = << >>
  /\ colorMap = << >>
  /\ colors = << >>
  /\ crumbs = << >>
  /\ appearsIn = << >>
  /\ consistsOf = << >>
  /\ image = 0

ParseCatalogPage == FindBanner \/ ExtractPaginationInfo \/ ExtractItem \/ ExtractItems

ParseItemDetails ==
  \/ Search \/ SearchOver
  \/ AddCrumb
  \/ PriceGuide \/ LotsForSale \/ KnownColors \/ ListColor \/ ListColors
  \/ AddAppearsIn \/ ConsistsOf \/ AddConsistsOf \/ ItemImage

Next == ParseCatalogPage \/ ParseItemDetails

Spec == Init /\ [][Next]_vars

-----------------------------------------------------------------------------
(* Properties.                                                             *)

\* The numbers of a page are all read from one element, the innermost that has the
\* words: they are the first of their kind in its text, and 0 only where it has none.
PaginationOfOneBanner ==
  LET Innermost(i) == IsBanner(i) /\ \A j \in Inside(i) : ~IsBanner(j)
      Said(i, n, wording, place) ==
        \/ Numbered(i, wording) = {} /\ n = 0
        \/ \E k \in Numbered(i, wording) :
             (\A other \in Numbered(i, wording) : k <= other) /\ n = doc[k].says[place]
  IN  (page # NoPage \/ step \in {"items", "page parsed"}) =>
        \E i \in DOMAIN doc :
          /\ Innermost(i)
          /\ Said(i, page.found, "Items Found", 2)
          /\ Said(i, page.number, "Page of", 2)
          /\ Said(i, page.total, "Page of", 3)
          /\ Said(i, page.perPage, "Items Per Page", 2)

\* The colour links of a section, each with the row in which it is met.
ColourLinks(s) ==
  {v \in (DOMAIN doc) \X (DOMAIN doc) :
     v[1] \in Places(s) /\ v[2] \in Find(v[1], "colour") /\ IsColour(s, doc[v[2]])}

Parsed == step = "item parsed"

\* A colour of the price guide has the name it has there, in the last row that lists
\* it, whatever an outer row or another section calls it.
PriceGuideNames ==
  LET guide == ColourLinks("Price Guide Info")
      Later(v, w) == w[1] > v[1] \/ (w[1] = v[1] /\ w[2] > v[2])
  IN  Parsed =>
        \A v \in guide :
          (~ \E w \in guide : doc[w[2]].id = doc[v[2]].id /\ Later(v, w)) =>
             \E k \in DOMAIN colors :
               colors[k] = [id |-> doc[v[2]].id, name |-> doc[v[2]].says[1]]

\* The list has every colour of the price guide and of the known colours, once, and a
\* colour that is only for sale just when the price guide has too few.
ColorsComplete ==
  LET Ids(s) == {doc[v[2]].id : v \in ColourLinks(s)}
      guide == Ids("Price Guide Info")
      sale == IF Cardinality(guide) < Enough THEN Ids("Lots For Sale") ELSE {}
  IN  Parsed => /\ Listed = guide \union sale \union Ids("Known Colors")
                /\ Len(colors) = Cardinality(Listed)

\* No parts are listed that stand in a cell without parts or above one: the inventories
\* are those of the cells that follow the last such cell.
NoPartsAboveNA ==
  LET headers == {i \in DOMAIN doc : doc[i].tag = "header"
                                     /\ doc[i].says[1] = "Item Consists Of"}
      below == {i \in headers : \A j \in headers : j >= i => ~HasText(Parent(j), "N/A")}
      beside == {k \in DOMAIN doc : /\ doc[k].tag = "inventory"
                                    /\ \E i \in below : k \in Inside(Parent(i))}
  IN  Parsed => {consistsOf[n] : n \in DOMAIN consistsOf} = {doc[k].id : k \in beside}

=============================================================================
