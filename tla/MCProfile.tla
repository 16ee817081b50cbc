----------------------------- MODULE MCProfile -----------------------------
(***************************************************************************)
(* Profile for TLC: one folder and one file list, so that a refused value  *)
(* and a removed folder meet in one Apply; one record for the other        *)
(* stores, one damaged file and two starts.                                *)
(***************************************************************************)
EXTENDS Profile

MCRoot == {"docs"}
MCShareOf == [r \in MCRoot |-> "nas"]
MCList == {"disc"}
MCMark == {"m"}
MCManaged == {"bookmarks"}
=============================================================================
