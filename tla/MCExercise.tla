------------------------------ MODULE MCExercise ------------------------------
(***************************************************************************)
(* Three screens with the same field that write to three tables, one known *)
(* to the model; routes of two entities, one with all methods and one      *)
(* whose table has no id column; routes of two entities with one key.      *)
(***************************************************************************)
EXTENDS Exercise

Segments == {"api", "users", "tags", "logs", ":id", "{code}", "7", "8", "x-9"}
MCLower == [s \in Segments \cup {"/new", "/tag"} |-> s]
Unused == [n \in {} |-> <<>>]

Constraint(known, rules) == [field |-> "name", known |-> known, rules |-> rules]

Screen(table, column, next, constraints, proposes) ==
    [fields |-> {"name"}, table |-> table, column |-> "name" :> column, next |-> next,
     constraints |-> constraints, proposes |-> proposes]

MCForm ==
    "/new" :> Screen("users", "name", "/done", <<Constraint(<<"users", "name">>, {"maxLength"})>>, {FALSE})
    @@ "/tag" :> Screen("tags", "label", "/tag", <<>>, {FALSE})
    @@ "/note" :> Screen("notes", "text", "/note", <<Constraint(<<>>, {})>>, BOOLEAN)

Column(name, type, nullable) == [name |-> name, kind |-> type, nullable |-> nullable]
MCColumnsOf ==
    "users" :> <<Column("id", "number", FALSE), Column("name", "text", TRUE)>>
    @@ "tags" :> <<Column("code", "text", FALSE), Column("label", "text", TRUE)>>
    @@ "logs" :> <<Column("id", "number", FALSE)>>

Route(method, path, entity) == [method |-> method, path |-> path, entity |-> entity]
Users ==
    <<Route("GET", <<"api", "users">>, "users"),
      Route("POST", <<"api", "users">>, "users"),
      Route("PATCH", <<"api", "users", ":id">>, "users"),
      Route("DELETE", <<"api", "users", ":id">>, "users")>>
Tags ==
    <<Route("POST", <<"api", "tags">>, ""),
      Route("DELETE", <<"api", "tags", "{code}">>, "tags")>>

MCRowIds == <<"7", "x-9">>

\* Nothing, or a user an earlier crud has created and left, and a tag whose code
\* is the id of another row.
MCLeft == {{}, {Row("users", "8", "id" :> <<"8">> @@ "name" :> <<"crud", "name">>),
                Row("tags", "8", "id" :> <<"8">> @@ "code" :> <<"7">>)}}

Explore(screens) == [kind |-> "explore", screens |-> screens]
Crud(routes, hasFullNodes) == [kind |-> "crud", routes |-> routes, hasFullNodes |-> hasFullNodes]
MCJobs ==
    {Explore(<<"/new">>), Explore(<<"/note", "/tag">>), Explore(<<"/note">>),
     Crud(Users, TRUE), Crud(Tags, FALSE), Crud(<<Tags[1], Users[2]>>, FALSE),
     Crud(<<Route("POST", <<"api", "logs">>, "logs"), Tags[2]>>, TRUE),
     Crud(<<Users[2], Route("POST", <<"api", "users">>, "tags")>>, TRUE),
     Crud(<<Route("POST", <<"api", "users">>, "logs"), Users[2]>>, TRUE)}
===============================================================================
