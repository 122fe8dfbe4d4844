-------------------------------- MODULE MCSpine --------------------------------
(***************************************************************************)
(* A small shop for TLC.  The glossary knows orders and, in one version,   *)
(* customers; the code has orders, clients and what hangs off them.        *)
(***************************************************************************)
EXTENDS Spine

-------------------------------------------------------------------------------
(* Names.                                                                    *)

Plain ==
    {"Order", "Customer", "orders", "clients", "order", "customer", "health", "lines",
     "id", "total", "status", "email", "name", "phone", "vip", "action",
     "draft", "placed", ":id", "42", "Client", "client"}

Compound ==
    "order_items" :> <<"order", "items">> @@ "audit_logs" :> <<"audit", "logs">>
    @@ "order_id" :> <<"order", "id">> @@ "OrderPlaced" :> <<"order", "placed">>

lowerOf == "Order" :> "order" @@ "Customer" :> "customer" @@ "Client" :> "client"
           @@ "OrderItem" :> "orderitem" @@ "AuditLog" :> "auditlog"
           @@ "Unknown" :> "unknown" @@ "Health" :> "health"

MCLower == [s \in Plain |-> IF s \in DOMAIN lowerOf THEN lowerOf[s] ELSE s]
           @@ lowerOf @@ [s \in Range(lowerOf) |-> s]
MCWords == [n \in Plain |-> <<MCLower[n]>>] @@ Compound

singularOf == "orders" :> "order" @@ "clients" :> "client" @@ "items" :> "item"
              @@ "logs" :> "log" @@ "lines" :> "line"
MCSingular ==
    [w \in UNION {ToSet(MCWords[n]) : n \in DOMAIN MCWords} |->
        IF w \in DOMAIN singularOf THEN singularOf[w] ELSE w]

spelled == "order_items" :> "orderitems" @@ "audit_logs" :> "auditlogs"
           @@ "order_id" :> "orderid" @@ "OrderPlaced" :> "orderplaced"
MCLetters == [n \in DOMAIN MCWords |-> IF n \in DOMAIN spelled THEN spelled[n] ELSE MCLower[n]]
MCSlug    == MCLetters
MCWithin  ==
    {<<"order", "orders">>, <<"order", "orderitems">>, <<"order", "orderid">>,
     <<"order", "orderplaced">>, <<"placed", "orderplaced">>}
MCShort        == {"id"}
MCBelowLine    == {"audit_logs"}
MCParamSegment == {":id", "42"}

-------------------------------------------------------------------------------
(* Intent.                                                                   *)

Concept(name, kind, aliases, attributes, dependsOn) ==
    [id |-> NoId, name |-> name, aliases |-> aliases, kind |-> kind,
     attributes |-> attributes, dependsOn |-> dependsOn]

orderConcept == Concept("Order", "aggregate-root", {}, {"id", "total", "status"}, {"Customer"})
customerConcept ==
    Concept("Customer", "entity", {}, {"id", "email", "name", "phone"}, {"Order"})

Glossary(concepts) ==
    [concepts |-> concepts, events |-> <<[name |-> "OrderPlaced", aggregate |-> "Order"]>>,
     transitions |-> <<[aggregate |-> "Order", from |-> "draft", to |-> "placed",
                        event |-> "OrderPlaced"]>>]

wholeGlossary == Glossary(<<orderConcept, customerConcept>>)
smallGlossary == Glossary(<<orderConcept>>)
MCGlossaries  == {wholeGlossary, smallGlossary}

-------------------------------------------------------------------------------
(* Structure: two versions of the code.  The whole shop is analyzed at once; *)
(* its clients have three of the five attributes of Customer, no name.       *)

File(path, kind, lines) ==
    [path |-> path, kind |-> kind, kb |-> 4, laravel |-> TRUE, lines |-> lines]

Line(class, names, states) == [class |-> class, names |-> names, states |-> states]

files ==
    <<File(<<"composer.json">>, "manifest", <<>>),
      File(<<"routes", "web.php">>, "php", <<>>),
      File(<<"routes", "api.php">>, "php", <<>>),
      File(<<"app", "Http", "Controllers", "OrderController">>, "php", <<>>),
      File(<<"app", "Http", "Controllers", "Admin", "HealthController">>, "php", <<>>),
      File(<<"app", "Models", "Order">>, "php", <<>>),
      File(<<"src", "Order">>, "code", <<Line("Order", <<"Order", "OrderPlaced">>, <<>>),
                                         Line(None, <<"OrderPlaced">>, <<>>)>>),
      File(<<"vendor", "Order">>, "code", <<Line("Order", <<>>, <<"draft">>)>>)>>

Model(class, table, fillable, relationships) ==
    [className |-> class, tableName |-> table, fillable |-> fillable, casts |-> <<>>,
     relationships |-> relationships]

Handled(method, path, controller) ==
    [method |-> method, path |-> path, controller |-> controller, action |-> None]

Key(method, path) == [method |-> method, path |-> path]

showOrder   == Key("GET", <<"orders", ":id">>)
placeOrder  == Key("POST", <<"orders">>)
changeOrder == Key("PATCH", <<"orders", ":id">>)
health      == Key("GET", <<"health">>)

By(controller, route) == Handled(route.method, route.path, controller)

told(name, entity, route) == [name |-> name, entities |-> <<entity>>, routes |-> <<route>>]

usecases == <<told("show order", "Order", showOrder), told("place order", "orders", placeOrder)>>

Called(class, name) == [className |-> class, name |-> name, exclude |-> FALSE]
names == <<Called("Order", "Purchase"), Called("Client", "Customer"),
           Called("OrderItem", "lines"), Called("AuditLog", "action")>>

Depends(from, to) == [from |-> from, to |-> to]

wholeShop ==
    [files |-> files, backend |-> "explore", passes |-> <<>>,
     answers |->
        <<"routes", <<>>, 0>> :>
            <<By("OrderController", showOrder), By("OrderController", placeOrder),
              By("OrderController", changeOrder), By(None, health)>>
     @@ <<"models", <<>>, 0>> :>
            <<Model("Order", "orders", <<"id", "total", "status">>, <<"clients">>),
              Model("Client", "clients", <<"id", "email", "name", "vip", "phone">>, <<>>),
              Model("OrderItem", "order_items", <<"id", "order_id">>, <<"orders">>),
              Model("AuditLog", "audit_logs", <<"id", "action">>, <<"clients">>)>>
     @@ <<"pages", <<>>, 0>> :> <<[path |-> placeOrder.path, formFields |-> {"total"}],
                                  [path |-> changeOrder.path, formFields |-> {"status"}]>>
     @@ <<"operations", <<>>, 1>> :> <<[entity |-> "Client", crud |-> "R"]>>
     @@ <<"route events", <<>>, 0>> :> <<[route |-> placeOrder, events |-> {"OrderPlaced"}]>>
     @@ <<"entities", <<>>, 0>> :>
            [entities |-> names,
             relationships |-> <<Depends("Order", "Client"), Depends("OrderItem", "Order"),
                                 Depends("AuditLog", "Client")>>]
     @@ <<"usecases", <<>>, 1>> :> usecases
     @@ <<"usecases", <<>>, 2>> :> <<>>]

\* The incremental analysis of a smaller shop.  Two units show one route, and
\* two show parts of one model.
fragment == [routes |-> <<>>, controllers |-> <<>>, models |-> <<>>]

smallShop ==
    [files |-> files, backend |-> "explore", passes |-> <<1, 2>>,
     answers |->
        <<"unit", <<"laravel", "routes", "web.php">>, 1>> :>
            [fragment EXCEPT !.routes = <<By(None, placeOrder), By(None, placeOrder)>>]
     @@ <<"unit", <<"laravel", "routes", "web.php">>, 2>> :>
            [fragment EXCEPT !.routes = <<By("OrderController", showOrder)>>]
     @@ <<"unit", <<"laravel", "routes", "api.php">>, 2>> :>
            [fragment EXCEPT !.routes = <<By(None, [showOrder EXCEPT !.path[2] = "42"]),
                                          By("HealthController", health)>>]
     @@ <<"unit", <<"laravel", "controllers">>, 2>> :>
            [fragment EXCEPT
                !.controllers = <<[className |-> "OrderController", operations |->
                                    "show" :> {[entity |-> "Order", crud |-> "R"]}]>>,
                !.models = <<Model("Order", None, <<"id", "status">>, <<>>)>>]
     @@ <<"unit", <<"laravel", "controllers", "Admin">>, 2>> :>
            [fragment EXCEPT
                !.routes = <<By(None, [health EXCEPT !.path = NoPath])>>,
                !.models = <<Model("OrderItem", "order_items", <<"id", "order_id">>,
                                   <<"orders">>)>>]
     @@ <<"unit", <<"laravel", "models">>, 2>> :>
            [fragment EXCEPT
                !.models = <<Model("Order", "orders", <<"id", "total">>, <<"clients">>)>>]
     @@ <<"usecases", <<>>, 1>> :> usecases]

wholeExtract == analyze(<<wholeShop>>)
smallExtract == analyze(<<smallShop>>)
bothExtract  == analyze(<<smallShop, wholeShop>>)

\* The shop while its clients become customers: the code has a model of both.
migratedShop ==
    [wholeShop EXCEPT
        !.answers[<<"models", <<>>, 0>>][4] = Model("Customer", None, <<"id", "email">>, <<>>),
        !.answers[<<"entities", <<>>, 0>>] =
            [entities |-> [names EXCEPT ![4] = Called("Customer", "customer")],
             relationships |-> <<Depends("Order", "Client")>>]]

MCWorkspaces == {<<wholeShop>>, <<smallShop>>, <<migratedShop>>}

\* Any of the questions may go without an answer.
Partly(repo, backends) ==
    {[repo EXCEPT !.answers = Restrict(@, answered), !.backend = backend] :
        answered \in SUBSET DOMAIN repo.answers, backend \in backends}

MCTrials ==
    Partly(wholeShop, {"explore"}) \cup Partly(smallShop, {"complete"})
    \cup {[repo EXCEPT !.backend = backend] :
            repo \in {wholeShop, smallShop}, backend \in {"none", "complete"}}
    \cup {[smallShop EXCEPT !.passes = passes] : passes \in {<<1>>, <<2, 1>>, <<1, 2, 3>>}}

MCStem == "OrderController" :> "Order" @@ "HealthController" :> "Health" @@ None :> "Unknown"
MCManaged == "Order" :> "manage orders" @@ "Health" :> "manage health"
             @@ "Unknown" :> "manage the rest"
MCClassOfMethod == "clients" :> "Client" @@ "orders" :> "Order"

InOrder ==
    <<".", "42", ":id", "Admin", "AuditLog", "Client", "Controllers", "GET",
      "Health", "HealthController", "Http", "Models", "Order", "OrderController",
      "OrderItem", "PATCH", "POST", "Unknown", "api.php", "app", "composer.json",
      "controllers", "generic", "health", "laravel", "models", "orders", "routes",
      "src", "vendor", "web.php">>
MCPlace == [w \in ToSet(InOrder) |-> SelectInSeq(InOrder, LAMBDA x : x = w)]

-------------------------------------------------------------------------------
(* Behavior: pages, a click; in one crawl a mutation was recorded.           *)

orderPage  == [path |-> <<"orders", "42">>, inputs |-> {}]
linesPage  == [path |-> <<"lines">>, inputs |-> {"total"}]
toHealth   == [from |-> <<"orders", "42">>, to |-> <<"health">>, trigger |-> "click"]

Report(pages, transitions) == <<[pages |-> pages, transitions |-> transitions]>>

clickHealth == [from |-> <<"orders", "42">>, to |-> <<"health">>, kind |-> "click"]

Tx(method, path, seq) ==
    [method |-> method, path |-> path, seq |-> seq, ok |-> TRUE,
     page |-> << <<"orders", "42">> >>]

onlyPages == [reports |-> Report(<<orderPage, linesPage>>, <<toHealth>>),
              transactions |-> <<>>, saved |-> <<>>, results |-> <<>>,
              edges |-> <<clickHealth>>]
recorded ==
    [reports |-> Report(<<orderPage>>, <<>>),
     transactions |-> <<(<<Tx("POST", <<"orders">>, 1), Tx("PATCH", <<"orders", "42">>, 2)>>)>>,
     saved |-> <<placeOrder :> {"total"}>>,
     results |-> <<(<< <<[route |-> placeOrder, dbProbed |-> TRUE,
                          ok |-> TRUE]>> >>)>>,
     edges |-> <<>>]

MCCrawls == {onlyPages, recorded}

Old(glossary, extract, crawl) ==
    [glossary |-> glossary, extract |-> extract, crawl |-> crawl]

MCLegacy ==
    {Old(<<>>, <<>>, <<>>),
     Old(<<wholeGlossary>>, <<wholeExtract>>, <<onlyPages>>),
     Old(<<wholeGlossary>>, <<wholeExtract>>, <<recorded>>),
     Old(<<smallGlossary>>, <<bothExtract>>, <<onlyPages>>),
     Old(<<>>, <<wholeExtract>>, <<recorded>>)}

-------------------------------------------------------------------------------
(* What humans write.                                                        *)

Correcting(kind, entity) ==
    [kind |-> kind, entity |-> entity, to |-> None, attributes |-> {}, dependsOn |-> <<>>,
     crud |-> {}]

setCrud       == [Correcting("set-crud", "clients") EXCEPT !.crud = {"U"}]
addCrud       == [Correcting("add-crud", "clients") EXCEPT !.crud = {"D"}]
addAttributes == [Correcting("add-attributes", "orders") EXCEPT !.attributes = {"phone"}]
rename        == [Correcting("rename-entity", "clients") EXCEPT !.to = "customer"]
removeItems   == investigateEntity("order_items",
                    [exists |-> FALSE, attributes |-> {}, crud |-> {}])
addLines      == [Correcting("add-entity", "lines") EXCEPT
                    !.attributes = {"id", "order_id"}, !.dependsOn = <<"orders">>]
relinkLines   == [Correcting("set-depends-on", "lines") EXCEPT !.dependsOn = <<"clients">>]
retypeNew     == [Correcting("set-attributes", "customer") EXCEPT
                    !.attributes = {"id", "email", "name"}]

MCCorrections ==
    {<<setCrud, addAttributes>>, <<addCrud>> \o removeItems, <<rename, retypeNew>>,
     <<addLines, relinkLines>>}

orderId    == <<"concept", "order">>
customerId == <<"concept", "customer">>

Adr(id, affects, constraints) ==
    [adrId |-> id, status |-> "accepted", affects |-> affects, supersedes |-> {},
     constraints |-> constraints]

MCAdrs ==
    {<<Adr("1", {customerId}, <<[kind |-> "note", from |-> {customerId}, to |-> {}]>>),
       Adr("2", {}, <<[kind |-> "forbid-dependency", from |-> {orderId},
                       to |-> {customerId}]>>)>>,
     <<Adr("3", {}, <<[kind |-> "require-dependency", from |-> {orderId},
                       to |-> {customerId}],
                      [kind |-> "note", from |-> {orderId}, to |-> {}]>>)>>}

MCDecisions ==
    {<<>>, <<[entity |-> "clients", concept |-> customerId]>>,
     <<[entity |-> "clients", concept |-> <<"concept", "ghost">>]>>}
===============================================================================
