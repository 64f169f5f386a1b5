---------------------------- MODULE MCImageCache ----------------------------
(* A small instance of ImageCache for TLC. *)
EXTENDS ImageCache

\* Both items need the same image.
MCNeeds == [i \in CacheItems |-> {"a"}]
=============================================================================
