---------------------------- MODULE MCRecordStore ----------------------------
EXTENDS RecordStore

Leaf(v) == (<<>> :> v)
Tree(children) == Applied(Object, <<>>, children)

\* Values that are inline, large, objects of both, and objects of objects.
Mixed == Tree((<<"x">> :> Leaf("v")) @@ (<<"y">> :> Leaf("big")))
Plain == Tree((<<"x">> :> Leaf("v")))
Large == Tree((<<"x">> :> Leaf("big")))
Values == {Leaf("v"), Leaf("big"), Object, Mixed, Plain, Large}

Request(op, path, values) == {[op |-> op, path |-> path, value |-> v] : v \in values}

MCRequests ==
    Request("set", <<"a">>, {Leaf("v"), Leaf("null"), Tree((<<"b">> :> Mixed))})
    \union Request("set", <<"a", "b">>, Values \union {Leaf("null")})
    \union Request("set", <<"a", "b", "x">>, {Leaf("v"), Leaf("big"), Leaf("null")})
    \union Request("update", <<"a">>, {Tree((<<"b">> :> Plain) @@ (<<"c">> :> Leaf("big"))),
                                       Tree((<<"b">> :> Leaf("null")) @@ (<<"c">> :> Leaf("v")))})
    \union Request("update", <<"a", "b">>, {Tree((<<"x">> :> Leaf("big")) @@ (<<"y">> :> Leaf("null")))})
    \union Request("transact", <<"a", "b">>, {Mixed, Large, Leaf("null")})
    \union Request("set", <<>>, {Object, Tree((<<"a">> :> Large))})

MCPaths == {<<>>, <<"a">>, <<"a", "b">>, <<"a", "c">>, <<"a", "b", "x">>, <<"a", "b", "y">>}
==============================================================================
