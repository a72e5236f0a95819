----------------------------- MODULE MCServices -----------------------------
(* Sketches for the node that answers, and names for the requests. *)
EXTENDS Services

\* A sketch that registers each entry by a kind and a name.
Call(kind, name) == [kind |-> kind, name |-> name]

\* Nothing; a name in all the tables, and a second only as a service; a name
\* that finds no place, because the tables have one place each.
Sketches ==
  {<<>>,
   <<Call("service", "x"), Call("function", "x"), Call("float", "x"), Call("int", "x")>>,
   <<Call("float", "y"), Call("service", "x")>>,
   <<Call("service", "y"), Call("service", "x"), Call("function", "x")>>,
   <<Call("int", "y"), Call("int", "x"), Call("float", "y")>>}

Names == <<"x", "y", "x">>

=============================================================================
