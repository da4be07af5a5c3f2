---------------------------- MODULE MCProjection -----------------------------
(* One source: all of it, if it exists, is the environment of the sandbox;    *)
(* the sibling needs a key of it, mounts it if it still exists by then, and   *)
(* mounts a volume of a type that is not supported.                           *)
EXTENDS Projection

R(c, kind, k, o) == [cont |-> c, kind |-> kind, src |-> "cfg", key |-> k, optional |-> o]

MCRefs ==
  << R(1, "envFrom", "a", TRUE), R(2, "env", "a", FALSE), R(2, "vol", "a", TRUE),
     R(2, "other", "a", FALSE) >>

MCContents == {{"a", "b"}, {"b"}, {"a", "x/y"}}
=============================================================================
