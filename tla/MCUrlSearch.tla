---------------------------- MODULE MCUrlSearch ----------------------------
(* A search of two posts with a comment each, on one page; another page    *)
(* may be made.                                                            *)
EXTENDS UrlSearch

OnePage == [p \in Posts |-> "page"]
OneEach == [c \in Comments |-> IF c = "hello" THEN "first" ELSE "second"]
=============================================================================
