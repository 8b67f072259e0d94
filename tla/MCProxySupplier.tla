--------------------------- MODULE MCProxySupplier ---------------------------
EXTENDS ProxySupplier
=============================================================================
