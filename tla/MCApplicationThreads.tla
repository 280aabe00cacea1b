----------------------- MODULE MCApplicationThreads ------------------------
EXTENDS ApplicationThreads
=============================================================================
