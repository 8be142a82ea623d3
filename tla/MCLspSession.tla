---------------------------- MODULE MCLspSession ----------------------------
EXTENDS LspSession

MCContentLength == [L0 |-> 0, L1 |-> 1, L3 |-> 3]

Plain == [json |-> "object", id |-> "none", method |-> "none", error |-> "none",
          result |-> FALSE, settings |-> <<>>]
Req(method, settings) ==
    [Plain EXCEPT !.id = "number", !.method = method, !.settings = settings]
Note(method, settings) == [Plain EXCEPT !.method = method, !.settings = settings]
Configured(settings) == [Plain EXCEPT !.id = "1", !.result = TRUE, !.settings = settings]

MCMessage ==
    [init |-> Req("initialize", <<"A", "other">>),
     badinit |-> Req("initialize", <<"A", "bad">>),
     shutdown |-> [Req("shutdown", <<>>) EXCEPT !.id = "string"],
     exit |-> Note("exit", <<>>),
     hover |-> Req("unknown", <<>>),
     ready |-> Note("initialized", <<>>),
     doc |-> Note("document", <<>>),
     setB |-> Note("didChangeConfiguration", <<"B", "B", "bad", "">>),
     setN |-> Note("didChangeConfiguration", <<"N">>),
     answer |-> Configured(<<"">>),
     noanswer |-> Configured(<<>>),
     failed |-> [Plain EXCEPT !.id = "1", !.error = "good"],
     notnum |-> [Plain EXCEPT !.id = "string", !.result = TRUE],
     objid |-> [Req("shutdown", <<>>) EXCEPT !.id = "object"],
     badid |-> [Req("shutdown", <<>>) EXCEPT !.id = "broken"],
     both |-> [Configured(<<"A">>) EXCEPT !.method = "initialize"],
     batch |-> [Plain EXCEPT !.json = "array"],
     junk |-> [Plain EXCEPT !.json = "broken"]]

One(c) == [headers |-> <<<<"L1">>>>, content |-> <<c>>]
Other(c) == [headers |-> <<<<"type">>, <<"L1">>>>, content |-> <<c>>]
Blank(c) == [headers |-> <<<<"L3">>>>, content |-> <<c, "CR", "LF">>]
Late(c) == [headers |-> <<<<"bad">>, <<"L1", "L1">>, <<"L1">>, <<"L0">>>>, content |-> <<c>>]
NoFrame == [headers |-> <<<<"type">>>>, content |-> <<>>]
BadFrame == [headers |-> <<<<"bad">>>>, content |-> <<>>]
Empty == [headers |-> <<<<"L0">>>>, content |-> <<>>]

MCStreams ==
    {<<One("init"), One("ready"), One("answer")>>,
     <<Blank("doc"), Other("hover")>>,
     <<One("shutdown"), One("exit"), One("doc")>>,
     <<NoFrame, Late("init")>>,
     <<One("badinit"), BadFrame, One("both")>>,
     <<One("setB"), One("setN"), One("noanswer")>>,
     <<One("doc"), One("junk"), One("exit")>>,
     <<Empty, One("batch"), One("failed")>>,
     <<One("notnum"), One("objid"), One("badid")>>}
=============================================================================
