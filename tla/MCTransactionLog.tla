-------------------------- MODULE MCTransactionLog --------------------------
EXTENDS TransactionLog

Leaf(v) == [p \in {<<>>} |-> v]
Node(children) == TreeOf(children)

\* A collection "c" of nodes "1" and "2" with keys "t" and "y".
Book(v) == Node((<<"t">> :> Leaf(v)))
Set(path, value) == [path |-> path, type |-> "set", updates |-> (<<>> :> value)]
Update(path, updates) == [path |-> path, type |-> "update", updates |-> updates]

MCRequests ==
    {Set(<<"c", "1">>, Book("v")),
     Set(<<"c", "1">>, Null),
     Set(<<"c", "1", "t">>, Leaf("w")),
     Update(<<"c", "1">>, (<<"t">> :> Null) @@ (<<"y">> :> Leaf("v"))),
     Update(<<"c">>, (<<"1">> :> Null) @@ (<<"2">> :> Book("v"))),
     Update(<<"c">>, (<<"2">> :> Node(<<"y">> :> Leaf("v")))),
     Set(<<"c", "2">>, Node((<<"t">> :> Leaf("w")) @@ (<<"n">> :> Book("v")))),
     Set(<<"c">>, Node(<<"1">> :> Book("w"))),
     Set(<<"c">>, Null)}

NoLetters == [v \in {} |-> v]

For(path, events) == [path |-> path, events |-> events]
MCFilters ==
    {<<For(<<"c">>, {"value"})>>,
     <<For(<<"c", "1">>, {"value"}), For(<<"c", "2">>, {"value"})>>,
     <<For(<<"c", "1", "t">>, {"value"}), For(<<"c", "1">>, {"child_added"})>>,
     <<For(<<"c", "1", "y">>, {"mutated"})>>,
     <<For(<<"c">>, {"child_added"}), For(<<"c", "2", "n">>, {"value"})>>,
     <<For(<<"c">>, {"child_removed"}), For(<<"c", "2">>, {"child_added"})>>,
     <<For(<<"c">>, {"child_changed"})>>}

MCWhole == {<<For(<<"c">>, {"value"})>>}
==============================================================================
