---------------------------- MODULE MCPlatformApi ----------------------------
(* Requests for model checking PlatformApi.                                *)
EXTENDS PlatformApi, TLC

CONSTANT d1

Update(status, severity, note) ==
  [does |-> "update", kind |-> "incident", status |-> status,
   severity |-> severity, note |-> note]
Edit(title, spec) ==
  [does |-> "update", kind |-> "dashboard", title |-> title, spec |-> spec]
Create(kind) == [does |-> "create", kind |-> kind]
Ingest(items, via) == [does |-> "ingest", items |-> items, via |-> via]

Operations ==
  {Update("resolved", None, FALSE), Update(None, "high", TRUE),
   Edit(TRUE, FALSE), Create("incident"),
   [does |-> "link", kind |-> "incident"],
   Ingest(<<d1, d1>>, "http"), Ingest(<<d1, d1>>, "ws")}

Interchangeable == Permutations(Request)
=============================================================================
