--------------------------- MODULE MCCatalogCrawl ---------------------------
EXTENDS CatalogCrawl
=============================================================================
