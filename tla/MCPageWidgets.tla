--------------------------- MODULE MCPageWidgets ----------------------------
(* Three devices, one of them named like the id of another and one with a  *)
(* dash in its name, and one group.                                        *)
EXTENDS PageWidgets, TLC
D1 == [name |-> "fw", id |-> "1"]
D2 == [name |-> "1", id |-> "2"]
D3 == [name |-> "fw-b", id |-> "3"]
G1 == [name |-> "group", id |-> "1"]
MCCategories == <<"Device", "Device Group">>
MCRecords == "Device" :> {D1, D2, D3} @@ "Device Group" :> {G1}
MCTexts == {"", "f", "fw-", "b"}
MCStarts == "" :> {D1, D2, D3, G1} @@ "f" :> {D1, D3} @@ "fw-" :> {D3} @@ "b" :> {}
MCFinds == "" :> {D1, D2, D3, G1} @@ "f" :> {D1, D3} @@ "fw-" :> {} @@ "b" :> {D3}
MCStored == "new" :> [cat |-> "none", items |-> {}]
         @@ "one" :> [cat |-> "Device", items |-> {"2"}]
         @@ "all" :> [cat |-> "Device", items |-> {"-1"}]
         @@ "group" :> [cat |-> "Device Group", items |-> {"1"}]
=============================================================================
