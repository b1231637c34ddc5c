-------------------------- MODULE MCMediaGroupDedup --------------------------
(* The instance of MediaGroupDedup for TLC: two messages of one album and    *)
(* one of another.                                                           *)
EXTENDS MediaGroupDedup

CONSTANTS h1, h2, h3, a1, a2

TwoAlbums == [h \in Handler |-> IF h \in {h1, h2} THEN a1 ELSE a2]
==============================================================================
