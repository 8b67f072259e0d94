--------------------------- MODULE MCCatalogParser ---------------------------
EXTENDS CatalogParser, SequencesExt

\* Documents of a few elements, whose nesting is that of a document: an element inside
\* another one comes right after it or after one inside it, and a link has none inside.
IsDocument(d, leaves) ==
  /\ d[1].depth = 0
  /\ \A k \in 2..Len(d) :
       d[k].depth <= d[k - 1].depth + (IF d[k - 1].tag \in leaves THEN 0 ELSE 1)

Element(tag, says, id, depth) == [tag |-> tag, says |-> says, id |-> id, depth |-> depth]

Leaves == {"item", "colour", "header", "inventory", "set", "category", "image"}

\* Words with and without numbers at two depths, inside a body.
PageElements ==
  {Element("text", says, 0, depth) :
     says \in {<<"Items Found", 7>>, <<"Items Found">>, <<"Page of", 1, 2>>, <<"Page of", 3, 4>>,
               <<"Items Per Page", 5>>, <<"of">>, <<"">>},
     depth \in 1..2}
  \union {Element("item", <<"">>, 21, 1)}

Body == Element("text", <<"">>, 0, 0)

MCCatalogPages ==
  {d \in {<<Body>> \o rest : rest \in [1..4 -> PageElements]} : IsDocument(d, Leaves)}

\* Rows with a label, and colour links, inside a body that is a row of a layout table or
\* is not.
Row(label) == Element("row", <<label>>, 0, 1)
Colour(name, id) == Element("colour", <<name>>, id, 2)

ColourElements ==
  {Row(label) : label \in {"Price Guide Info", "Lots For Sale", "Known Colors"}}
  \union {Element("colour", <<name>>, 31, depth) : name \in {"Red", "Rose"}, depth \in 1..2}
  \union {Colour("Blue", 32), Colour("View All Colors", 32), Colour("count", 33)}

ColourPages ==
  {d \in {<<Element(tag, <<"">>, 0, 0)>> \o rest :
            tag \in {"row", "text"}, rest \in [1..4 -> ColourElements]} :
     IsDocument(d, Leaves)}

\* The price guide has enough colours, and other sections follow.
GuidePages ==
  {<<Body, Row("Price Guide Info"), Colour("Red", 31), Colour("Blue", 32)>> \o rest :
     rest \in [1..3 -> ColourElements \union {Colour("Black", 34)}]}

\* Three parts of an item's page: cells with a header and links, a breadcrumb, a header
\* whose cell is the body, an image.
Parts ==
  LET Cell(says) == Element("cell", <<says>>, 0, 1)
      Header(title, depth) == Element("header", <<title>>, 0, depth)
      Link(tag, id) == Element(tag, <<"link">>, id, 2)
  IN  {<<Cell(""), Header("Item Consists Of", 2), Link("inventory", 41)>>,
       <<Cell("N/A"), Header("Item Consists Of", 2)>>,
       <<Cell("N/A"), Header("Item Consists Of", 2), Link("inventory", 42)>>,
       <<Cell(""), Header("Item Appears In", 2), Link("set", 51),
         Header("Item Consists Of", 2), Link("inventory", 43)>>,
       <<Header("Item Consists Of", 1)>>,
       <<Cell("Catalog"), Link("category", 61)>>,
       <<Link("image", 71)>>}

ListPages ==
  {<<Body>> \o FlattenSeq(parts) : parts \in [1..3 -> Parts]}

MCItemPages == ColourPages \union GuidePages \union ListPages
=============================================================================
