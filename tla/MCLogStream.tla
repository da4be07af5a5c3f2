----------------------------- MODULE MCLogStream -----------------------------
(* Queries of a Pod with two containers: followed or not, with a limit and   *)
(* with a tail, also of 0; one without the container's name, one malformed.  *)
EXTENDS LogStream

MCInts ==
  [x \in {"-1", "0", "1", "2"} |->
     CASE x = "-1" -> -1 [] x = "0" -> 0 [] x = "1" -> 1 [] x = "2" -> 2]

Q(c, f, t, l) == [container |-> c, follow |-> f, tail |-> t, limit |-> l]

MCQueries ==
  {Q("c1", "", "", ""), Q("c1", "false", "1", ""), Q("c1", "", "0", ""),
   Q("c1", "1", "", ""), Q("c1", "true", "0", "0"), Q("c1", "true", "", "1"),
   Q("", "", "", ""), Q("c1", "yes", "", "")}
=============================================================================
