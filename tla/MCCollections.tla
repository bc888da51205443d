---------------------------- MODULE MCCollections ----------------------------
(***************************************************************************)
(* Collections instantiated for TLC: collection names and requests are    *)
(* model values given in the cfg files.                                    *)
(***************************************************************************)
EXTENDS Collections
=============================================================================
