---------------------------- MODULE MCDownloader ----------------------------
(***************************************************************************)
(* Instances of Downloader for TLC.                                        *)
(***************************************************************************)
EXTENDS Downloader

CONSTANTS a, b

MCSize == [o \in Object |-> IF o = a THEN 2 ELSE 3]
=============================================================================
