------------------------------ MODULE MCCalls ------------------------------
\* A small application: a function for every kind of port, two literals and
\* two models that share an identifier, a state with a lock.
EXTENDS Calls

T(kind) == [k |-> kind]
C(c) == [k |-> "cls", cls |-> c]
ListOfT(a) == [k |-> "list", of |-> a]
DictOfT(a) == [k |-> "dict", of |-> a]
Union(s) == [k |-> "union", of |-> s]
Optional(a) == Union(<<a, T("none")>>)
P(key, a, default) == [key |-> key, of |-> a, default |-> default]
F(interface, params, returns) ==
    [interface |-> interface, params |-> params, returns |-> returns,
     widgets |-> {}, locks |-> None]

Model(mod, key) == [sort |-> "model", module |-> mod, name |-> "plan",
                    fields |-> <<P(key, T("int"), None)>>]
Literal(base, order, members) ==
    [sort |-> "literal", module |-> "typing", name |-> "literal", base |-> base,
     order |-> order, members |-> members]

\* Methods as the functions below have them, or nearly so.
Optionally(f) == [fn |-> f, override |-> [NoOverride EXCEPT !.optional = TRUE]]
Rig ==
    <<Optionally(F("album", <<P("page", Optional(C("page")), None)>>, DictOfT(C("image")))),
      Optionally(F("attach", <<P("to", Union(<<C("dataset"), T("str")>>), None)>>, C("dataset"))),
      Optionally(F("batch", <<P("xs", ListOfT(T("int")), List(<<>>))>>, DictOfT(T("int")))),
      Optionally(F("choose", <<P("x", C("letters"), Str("b"))>>, C("letters"))),
      Optionally(F("double", <<P("n", T("int"), None), P("by", T("int"), Integer(3))>>, T("float"))),
      Optionally(F("label", <<P("flag", Optional(T("bool")), None)>>, T("str"))),
      Optionally(F("measure", <<P("v", Union(<<[k |-> "quantity", dim |-> "time"], T("str")>>), None)>>,
                   [k |-> "quantity", dim |-> "voltage"])),
      Optionally(F("pair", <<P("left", C("image"), None)>>,
                   [k |-> "tuple", of |-> <<C("image"), T("bool")>>])),
      Optionally(F("plan", <<P("plan", C("plan"), None)>>, T("int"))),
      Optionally(F("snap", <<>>, ListOfT(C("dataset")))),
      Optionally(F("wait", <<P("until", T("date"), None), P("n", T("int"), None)>>,
                   [k |-> "generator", of |-> T("date")]))>>

MCClasses ==
    [image |-> [sort |-> "plain", module |-> "lab", name |-> "image"],
     dataset |-> [sort |-> "structure", module |-> "lab", name |-> "dataset", identifier |-> "@lab/dataset"],
     mode |-> [sort |-> "enum", module |-> "lab", name |-> "mode", base |-> "Enum",
               members |-> [fast |-> Integer(1), slow |-> Integer(2)]],
     joined |-> Literal("StrEnum", <<"a_b">>, [a_b |-> Str("a_b")]),
     letters |-> Literal("StrEnum", <<"a", "b">>, [a |-> Str("a"), b |-> Str("b")]),
     plan |-> Model("lab", "steps"),
     otherplan |-> Model("desk", "pages"),
     page |-> [sort |-> "model", module |-> "lab", name |-> "page",
               fields |-> <<P("cover", C("image"), None), P("tags", ListOfT(T("str")), None)>>],
     stage |-> [sort |-> "state", module |-> "lab", name |-> "stage", locks |-> {"motor"},
              fields |-> <<P("x", T("float"), Integer(0)), P("seen", ListOfT(C("image")), None)>>],
     view |-> [sort |-> "state", module |-> "desk", name |-> "view", locks |-> {},
               fields |-> <<P("x", T("int"), None)>>],
     rig |-> [sort |-> "dependency", module |-> "desk", name |-> "rig", app |-> "", states |-> <<>>,
              methods |-> Rig],
     bench |-> [sort |-> "dependency", module |-> "desk", name |-> "bench", app |-> "lab",
                states |-> <<[key |-> "stage", cls |-> "view", override |-> NoOverride]>>,
                methods |-> <<[fn |-> F("reset", <<>>, T("none")),
                               override |-> [NoOverride EXCEPT !.key = "label", !.match_ports = FALSE,
                                                               !.args = 1]]>>]]

MCFunctions ==
    [double |-> F("double", <<P("n", T("int"), None), P("by", T("float"), Integer(1))>>, T("float")),
     label |-> F("label", <<P("text", T("str"), Str("x")), P("stage", C("stage"), None)>>,
                 Optional(T("str"))),
     relabel |-> F("label", <<P("flag", Optional(T("bool")), Bool(FALSE))>>, T("str")),
     snap |-> F("snap", <<>>, ListOfT(C("image"))),
     pair |-> F("pair", <<P("left", C("image"), None)>>,
                [k |-> "tuple", of |-> <<C("image"), T("bool")>>]),
     stereo |-> F("stereo", <<>>, [k |-> "tuple", of |-> <<C("image"), C("image")>>]),
     album |-> F("album", <<P("page", Optional(C("page")), None)>>, DictOfT(C("image"))),
     attach |-> F("attach", <<P("to", Union(<<C("dataset"), T("str")>>), None)>>, C("dataset")),
     either |-> F("either", <<P("v", Union(<<T("bool"), T("str"), T("none")>>), None)>>,
                  Union(<<T("int"), T("float")>>)),
     given |-> F("given", <<P("v", Union(<<T("int"), T("str")>>), Str("x"))>>, T("none")),
     measure |-> F("measure", <<P("v", Union(<<[k |-> "quantity", dim |-> "voltage"], T("str")>>), None)>>,
                   [k |-> "quantity", dim |-> "voltage"]),
     save |-> F("save", <<P("data", C("dataset"), None)>>, C("dataset")),
     run |-> F("run", <<P("mode", C("mode"), [t |-> "member", cls |-> "mode", name |-> "fast",
                                               is |-> Integer(1), base |-> "Enum"])>>, T("none")),
     pick |-> F("pick", <<P("x", C("joined"), None)>>, T("none")),
     choose |-> F("choose", <<P("x", C("letters"), Str("a"))>>, C("letters")),
     plan |-> F("plan", <<P("plan", C("plan"), None)>>, T("int")),
     replan |-> F("replan", <<P("plan", C("otherplan"), None)>>, C("otherplan")),
     batch |-> F("batch", <<P("xs", ListOfT(T("int")), List(<<>>)), P("named", DictOfT(T("float")), None)>>,
                 DictOfT(T("int"))),
     wait |-> F("wait", <<P("until", T("date"), None),
                          P("n", [k |-> "annotated", of |-> T("int"), default |-> Integer(2)], None)>>,
                [k |-> "generator", of |-> T("date")]),
     dwell |-> F("dwell", <<P("by", [k |-> "quantity", dim |-> "voltage"], Quantity("voltage", "5 mV"))>>,
                 T("none")),
     since |-> F("since", <<P("then", T("date"), Date("2024-05-01"))>>, T("none"))]
=============================================================================
