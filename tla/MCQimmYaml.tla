----------------------------- MODULE MCQimmYaml -----------------------------
(* QimmYaml on small documents, for TLC.                                   *)
EXTENDS QimmYaml, TLC

E(t) == <<[type |-> t, value |-> NULL]>>
S(v) == <<[type |-> "scalar", value |-> v]>>
Mapped(body) == E("mapping+") \o body \o E("mapping-")
Listed(body) == E("sequence+") \o body \o E("sequence-")

\* the sequences of up to two elements of S, end to end
UpToTwo(set) == {<<>>} \cup set \cup {a \o b : a \in set, b \in set}
Pairs(keys, nodes) == {S(k) \o n : k \in keys, n \in nodes}

Scalars == {S("a")}
Flat == {Listed(b) : b \in UpToTwo(Scalars)}
        \cup {Mapped(b) : b \in UpToTwo(Pairs({"name"}, Scalars))}
Deep == {Listed(b) : b \in UpToTwo({S("a"), Listed(<<>>), Mapped(<<>>)})}
        \cup {Mapped(b) : b \in UpToTwo(Pairs({"name"},
                    {S("a"), Mapped(S("name") \o S("a")), Listed(S("a"))}))}
AnyNode == Scalars \cup {E("alias")} \cup Flat \cup Deep

ItemEntries == Pairs({"name"}, {S("a"), S("b"), Mapped(S("x") \o S("b"))})
               \cup Pairs({"other"}, {S("b"), Mapped(S("name") \o S("b"))})
               \cup Pairs({"x"}, {S("b"), S("7"), Listed(<<>>)})
ItemMaps == {Mapped(b) : b \in UpToTwo(ItemEntries)}
Lists == {Listed(b) : b \in {<<>>, S("a")} \cup ItemMaps}
         \cup {Listed(a \o b) : a \in ItemMaps,
                                b \in {Mapped(S("name") \o S("c")), S("a")}}

ConfigEntries == Pairs({"name"}, {S("c"), Mapped(S("layouts") \o Listed(<<>>))})
                 \cup Pairs({"layouts"}, Lists \cup Scalars)
                 \cup Pairs({"themes", "types"},
                       {Listed(Mapped(S("name") \o S("b") \o S(k) \o S("a"))) :
                           k \in {"foreground", "summary"}})
                 \cup Pairs({"other"}, AnyNode)
                 \cup {Listed(<<>>) \o S("a")}
SmallEntries == Pairs({"name"}, {S("c"), Mapped(S("layouts") \o Listed(<<>>))})
                \cup Pairs({"layouts"}, {Listed(Mapped(S("name") \o S("c")))})
                \cup Pairs({"other"}, {Listed(S("a"))})
CutEntries == Pairs({"layouts"}, {Listed(a \o a) : a \in
    {Mapped(e) : e \in ItemEntries}}) \cup Pairs({"other"}, Flat)
Configs == {Mapped(<<>>), S("a"), Listed(<<>>)}
           \cup {Mapped(a) : a \in ConfigEntries}
           \cup {Mapped(a \o b) : a \in ConfigEntries, b \in SmallEntries}

Document(n) == E("stream+") \o E("document+") \o n
               \o E("document-") \o E("stream-")
Cut(es) == {SubSeq(es, 1, n) \o E("error") : n \in 0..Len(es) - 1}

Saved == {Document(Mapped(S("config_name") \o S("c") \o S("output_name") \o S("o"))),
          E("stream+") \o E("stream-"),
          E("stream+") \o E("document+") \o Mapped(S("other") \o Mapped(<<>>))
              \o E("document-") \o E("document+")
              \o Mapped(S("config_name") \o S("c")) \o E("document-")
              \o E("stream-")}

File(kind, es) == [kind |-> kind, events |-> es]

\* a configuration, or what is left of it, and a project's file behind it
MCFileLists ==
    {<<File("config", es), File("project", fs)>> :
        es \in UNION {Cut(Document(Mapped(a))) : a \in SmallEntries},
        fs \in Saved}
    \cup {<<File("config", es)>> : es \in {Document(n) : n \in Configs}}
    \cup {<<File("config", es)>> :
            es \in UNION {Cut(Document(Mapped(a))) : a \in CutEntries}
                  \cup UNION {Cut(es) : es \in Saved}}
=============================================================================
