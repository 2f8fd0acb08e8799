---------------------------- MODULE MCQueryMap ----------------------------
EXTENDS QueryMap

\* At most four keys in pages of one or two: last pages that are full and that are
\* not; limits below, at and between whole pages.
MCQueries ==
  [page : {1, 2}, max : {1, 3, Unlimited}, pinned : BOOLEAN, exhaust : BOOLEAN, pairs : {FALSE}]
    \cup [page : {2}, max : {Unlimited}, pinned : BOOLEAN, exhaust : {TRUE}, pairs : {TRUE}]
=============================================================================
