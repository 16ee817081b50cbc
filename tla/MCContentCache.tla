--------------------------- MODULE MCContentCache ---------------------------
\* An instance of ContentCache for TLC: a file and an archive.
EXTENDS ContentCache
=============================================================================
