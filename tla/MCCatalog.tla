----------------------------- MODULE MCCatalog ------------------------------
EXTENDS Catalog
LOCAL INSTANCE Sequences
LOCAL INSTANCE SequencesExt
LOCAL INSTANCE TLC

CONSTANTS c1, c2

MCNameLess(m, n) == m = <<"s">> /\ n = <<"t">>

One(k, v) == Obj([x \in {k} |-> v])
Two(k, v, l, w) == Obj([x \in {k, l} |-> IF x = k THEN v ELSE w])
Typed(t) == One("type", Str(t))
Props(p) == One("properties", p)

a == <<"a">>
b == <<"b">>
l == <<"l">>

\* An operation of a bulk, as its client means it, with its lines.
Line(kind, meta) == Body(One(kind, meta))
Op(kind, id, meta, doc) ==
    [kind |-> kind, id |-> id, doc |-> doc, fine |-> meta # Null,
     lines |-> <<Line(kind, meta)>> \o IF kind = "delete" THEN <<>>
               ELSE IF kind = "update" THEN <<Body(One("doc", doc))>> ELSE <<Body(doc)>>]
Bulk(index, ops) == [op |-> "bulk", index |-> index, ops |-> ops, lines |-> FlattenSeq([k \in DOMAIN ops |-> ops[k].lines])]

Id(x) == One("_id", Str(x))
DocOf(n) == One("f", Num(n))

MCRequests == {
    [op |-> "create_index", index |-> a,
     body |-> Body(Two("mappings", Props(One("f", Typed("keyword"))), "aliases", Obj([x \in {l} |-> Empty])))],
    [op |-> "create_index", index |-> b, body |-> Blank],
    [op |-> "delete_index", index |-> a],
    [op |-> "put_mapping", index |-> l, body |-> Body(Props(Two("f", Typed("text"), "h", Typed("date"))))],
    [op |-> "put_component", name |-> <<"c">>,
     body |-> Body(One("template", One("mappings", Props(Two("f", Typed("integer"), "g", Typed("text"))))))],
    [op |-> "delete_component", name |-> <<"c">>],
    [op |-> "put_template", name |-> <<"t">>,
     body |-> Body(Obj([x \in {"index_patterns", "composed_of", "template"} |->
                  CASE x = "index_patterns" -> Arr(<<Str(<<"*", "a">>), Str(<<"b">>)>>)
                    [] x = "composed_of" -> Arr(<<Str(<<"c">>)>>)
                    [] x = "template" -> Two("mappings", Props(One("g", Typed("keyword"))),
                                             "aliases", Obj([y \in {l} |-> One("is_write_index", Bool(TRUE))]))]))],
    [op |-> "put_template", name |-> <<"s">>,
     body |-> Body(Obj([x \in {"index_patterns", "priority", "template"} |->
                  CASE x = "index_patterns" -> Arr(<<Str(<<"?">>)>>)
                    [] x = "priority" -> Num(1)
                    [] x = "template" -> One("mappings", Props(One("g", Typed("date"))))]))],
    [op |-> "delete_template", name |-> <<"t">>],
    [op |-> "aliases", body |-> Body(One("actions", Arr(<<One("remove", Two("index", Str(a), "alias", Str(l))),
                                                         One("add", Two("index", Str(b), "alias", Str(l)))>>)))],
    [op |-> "index_alias", index |-> a, alias |-> l, act |-> "remove"],
    [op |-> "document", index |-> l, id |-> <<"1">>, body |-> Body(DocOf(1))],
    [op |-> "document", index |-> l, id |-> <<" ">>, body |-> Body(DocOf(1))],
    Bulk(None, <<Op("index", <<"2">>, Two("_index", Str(l), "_id", Str(<<"2">>)), DocOf(5)),
                 Op("delete", <<"1">>, Id(<<"1">>), Empty)>>),
    Bulk(Some(l), <<Op("create", <<"1">>, Id(<<"1">>), DocOf(2)), Op("index", <<"2">>, Null, DocOf(3)),
                    Op("update", <<"1">>, Id(<<"1">>), DocOf(4)), Op("delete", <<"2">>, Id(<<"2">>), Empty)>>) }
=============================================================================
