------------------------------ MODULE MCQuery ------------------------------
EXTENDS Query

Record(a, b, c) == [a |-> a, b |-> b, c |-> c]
Data(one, two, three) == <<one, two, three>>
None == Record(0, 0, 0)

MCDatabases ==
    {Data(Record(1, 1, 1), Record(2, 1, 1), Record(1, 2, 2)),
     Data(Record(2, 1, 2), Record(1, 1, 1), Record(2, 2, 1)),
     Data(Record(0, 1, 1), Record(1, 0, 2), None),
     Data(Record(1, 2, 1), None, Record(2, 1, 0)),
     Data(Record(1, 2, 1), Record(1, 0, 1), Record(1, 1, 0))}

Index(key, include) == [key |-> key, include |-> include]
MCIndexSets ==
    {{},
     {Index("a", {})},
     {Index("a", {}), Index("b", {})},
     {Index("a", {"b"})},
     {Index("a", {"c"}), Index("b", {"a"})}}

Filter(key, op, compare) == [key |-> key, op |-> op, compare |-> compare]
A == Filter("a", "<=", <<1>>)
B == Filter("b", "==", <<1>>)
C == Filter("c", ">", <<1>>)
Nowhere == Filter("a", "==", <<3>>)
Up(key) == [key |-> key, ascending |-> TRUE]
Down(key) == [key |-> key, ascending |-> FALSE]
Ask(filters, sort, skip, take, snapshots) ==
    [filters |-> filters, sort |-> sort, skip |-> skip, take |-> take, snapshots |-> snapshots]

MCQueries ==
    {Ask(<<A>>, <<>>, 0, 0, FALSE), Ask(<<A, B>>, <<>>, 0, 0, TRUE), Ask(<<A, C, B>>, <<>>, 0, 0, FALSE),
     Ask(<<B, C>>, <<>>, 0, 1, FALSE), Ask(<<Filter("a", "!exists", <<>>), B>>, <<>>, 0, 0, FALSE),
     Ask(<<Filter("a", "exists", <<>>), Filter("b", "in", <<1, 2>>)>>, <<>>, 1, 1, TRUE),
     Ask(<<B>>, <<Up("a")>>, 0, 1, TRUE), Ask(<<B>>, <<Down("a"), Up("c")>>, 1, 1, FALSE),
     Ask(<<Filter("a", "between", <<1, 2>>)>>, <<Down("b"), Up("a")>>, 1, 1, FALSE),
     Ask(<<Filter("a", ">=", <<1>>)>>, <<Up("b")>>, 0, -2, TRUE),
     Ask(<<Filter("a", "!in", <<2>>), Filter("b", "!between", <<2, 2>>)>>, <<>>, 0, 0, FALSE),
     Ask(<<Filter("a", ">", <<0>>)>>, <<Up("b")>>, 1, 0, FALSE),
     Ask(<<Filter("a", "<", <<2>>)>>, <<Up("c")>>, 0, 2, FALSE),
     Ask(<<>>, <<Up("a"), Down("c")>>, 1, 2, TRUE), Ask(<<>>, <<Down("a")>>, 0, -2, FALSE),
     Ask(<<Filter("a", ">", <<0>>), Filter("b", ">", <<0>>)>>, <<Up("c")>>, 0, 1, FALSE),
     Ask(<<Filter("a", "exists", <<>>)>>, <<Up("b")>>, 0, 0, FALSE), Ask(<<Nowhere, B>>, <<>>, 0, 0, FALSE),
     Ask(<<>>, <<>>, 0, 2, FALSE), Ask(<<>>, <<Up("b"), Up("a")>>, 1, 0, FALSE)}

MCNowhere == {Ask(<<Nowhere, B>>, <<>>, 0, 0, FALSE)}
=============================================================================
