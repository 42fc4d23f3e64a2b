--------------------------- MODULE MCTrackedStore ---------------------------
EXTENDS TrackedStore

Leaf(v) == [p \in {<<>>} |-> v]
Tree(children) == TreeOf(children)

\* Records with a key "n" and a key "r", and collections of two of them.
Children == {[k \in {<<x>> : x \in S} |-> Leaf(IF k = <<"n">> THEN n ELSE "v")] :
               S \in SUBSET {"n", "r"}, n \in {"v", "w"}}
Records == {Tree(c) : c \in Children}
Nested == Tree((<<"x">> :> Leaf("v")))
Small == {Tree((<<"n">> :> Leaf("v")))}

Set(path, values) == {[path |-> path, updates |-> (<<>> :> v)] : v \in values}
Update(path, updates) == {[path |-> path, updates |-> u] : u \in updates}

MCRequests ==
    Set(<<"c", "1">>, Records \union {Null, Leaf("v")})
    \union Set(<<"c", "2">>, Small \union {Null})
    \union Set(<<"c", "1", "n">>, {Leaf("v"), Leaf("w"), Null, Nested})
    \union Set(<<"c", "1", "n", "x">>, {Leaf("w")})
    \union Set(<<"c">>, {Tree((<<"1">> :> r)) : r \in Records} \union {Null, Leaf("v")})
    \union Update(<<"c">>, {(<<"1">> :> r) @@ (<<"2">> :> s) : r \in Records, s \in Small \union {Null}})
    \union Update(<<"c", "1">>,
                  {(<<"n">> :> Leaf("w")) @@ (<<"r">> :> x) : x \in {Leaf("v"), Null}})

Sub(path, type, notify) == [path |-> path, type |-> type, notify |-> notify]
MCMirror == Sub(<<"c">>, "mutated", FALSE)
MCSubscriptions ==
    {MCMirror,
     Sub(<<"c", "1">>, "value", FALSE),
     Sub(<<"c", "*", "n">>, "value", FALSE),
     Sub(<<>>, "child_changed", FALSE),
     Sub(<<"c">>, "child_added", FALSE),
     Sub(<<"c", "*">>, "child_removed", FALSE),
     Sub(<<>>, "mutations", FALSE),
     Sub(<<"c">>, "child_changed", TRUE),
     Sub(<<"c", "1", "n">>, "value", TRUE)}

\* The strings "v" and "w" have one character.
MCLetters == [v \in {"v", "w"} |-> [k \in {"0"} |-> v]]

MCIndexes == {[path |-> <<"c">>, key |-> <<k>>, include |-> {}] : k \in {"n", "r"}}
==============================================================================
