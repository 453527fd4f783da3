----------------------------- MODULE MCInvocation -----------------------------
(* Model checking the command line: which words there are, and which lines *)
(* and documents are tried.                                                *)
EXTENDS InvocationProps, TLC

MCTrimmed == (" " :> "") @@ (" a " :> "a") @@ (" public " :> "public") @@ (" z " :> "z")
MCLowered == ("GOING" :> "going") @@ ("TRUE" :> "true") @@ ("Past" :> "past")
MCTimes == ("t1" :> 1) @@ ("t2" :> 2)
MCZones == {"z", "Local"}
MCUrls == {"u"}
MCLong == [n \in {50, 400} |-> IF n = 50 THEN {"long", "longer"} ELSE {"longer"}]
MCSpelled == ("0" :> 0) @@ ("2" :> 2) @@ ("101" :> 101)
MCJson ==
  ("null" :> Null) @@ ("true" :> Bool(TRUE)) @@ ("2 x" :> Sloppy(2)) @@ ("q" :> Answers(TRUE))
MCParts == ("a=u" :> <<"a", "u">>) @@ ("a=b" :> <<"a", "b">>) @@ ("=u" :> <<"", "u">>)

(* Every line of at most n of the words, after some that are given. *)
After(head, words_, n) == [first |-> head, rest |-> words_, most |-> n, files |-> {NoDocument}]

MCLines ==
  {After(<<"events", "update">>, {"--title", "--link", "--input", "--force", "a", ""}, 5),
   After(<<"--force", "events", "--pretty", "update">>, {"--title", "a", "--force"}, 3),
   After(<<"events">>, {"update", "--dry-run", "a"}, 3),
   After(<<"events", "update", "e">>,
         {"--end", "--guest-limit", "--link", "null", "2 x", "t1", "=u"}, 4),
   After(<<"events", "create", "--title", " a ", "--start", "t1", "--timezone", "z">>,
         {"--end", "t1", "--visibility", "public", "--guest-limit", "2 x", "--link", "a=u", "a=b",
          "--description", " ", "--dry-run"}, 3),
   After(<<"events", "cancel">>,
         {"--message", "--notify-guests", "--input", "null", "TRUE", "e", "--dry-run"}, 4),
   After(<<"rsvp", "set">>, {"--status", "GOING", "interested", "--plus-one", "e", "--pretty"}, 4),
   After(<<"rsvp", "set", "e", "--status", "GOING", "--display-name", "a",
           "--party-size", "2", "--timezone", "z">>,
         {"--plus-one", "a", " ", "--message", "--questionnaire-response", "q", "",
          "--input", "--party-size"}, 4),
   After(<<"blasts", "send">>,
         {"--audience", "all-guests", "--message-file", "--show-on-event-page", "e", "--force"}, 4),
   After(<<"blasts", "send", "e", "--audience", "all-guests">>,
         {"--message-file", "--show-on-event-page", "a", "--force"}, 4),
   After(<<"contacts", "list">>,
         {"--query", "--limit", "--all", "--max-items", "--cursor", "2", "0", " ", ""}, 4),
   After(<<"posters", "search">>, {"--query", "--limit", "a", "101", " "}, 4),
   After(<<"posters", "list">>, {"--all", "--max-items", "2", "101"}, 3),
   After(<<"events", "list">>, {"--when", "Past", "a", "--limit", "2"}, 4),
   After(<<"guests", "list">>, {"e", "--limit", "2", "--all", "--max-items", ""}, 4),
   After(<<>>, {"help", "-h", "events", "update", "cohosts", "link", "events.update",
                "cohosts.link", "version", "--pretty", "x"}, 3)}
  \cup {After(path, {"e", "--contact", "a", " ", "--no-input"}, 4) :
          path \in {<<"guests", "invite">>, <<"cohosts", "invite">>, <<"cohosts", "remove">>,
                    <<"cohosts", "revoke-invite">>}}
  \cup {After(path, {"e", "--force", ""}, 3) :
          path \in {<<"cohosts", "link", "create">>, <<"cohosts", "link", "revoke">>,
                    <<"events", "get">>, <<"rsvp", "get">>}}
  \cup {After(path, {"events.update", "x", "--pretty"}, 2) :
          path \in {<<"schema">>, <<"--version">>, <<"doctor">>, <<"auth", "login">>,
                    <<"auth", "status">>, <<"auth", "logout">>}}

(* Documents that differ from a good one in at most two fields. *)
Gone == [gone |-> TRUE]
Second == {Gone, Null, Text("a"), Text("t1"), Text("not-going"), Number(3), List(<<>>)}
Changed(base, choices) ==
  {LET changed == [base EXCEPT ![f] = x, ![g] = y] IN
   [h \in {k \in DOMAIN base : changed[k] # Gone} |-> changed[h]] :
     f \in DOMAIN base, g \in DOMAIN base, x \in choices, y \in Second}
Texts == {Text("a"), Text(" a "), Text(""), Text(" ")}
Rest == {Gone, Null, Number(2), Number(0), Bool(FALSE), Other, List(<<>>)}
EventValues ==
  Texts \cup Rest \cup {Text("t1"), Text("t2"), Text(" z "), Text("Local"), Text(" public "),
                        List(<<Link(" a ", "u")>>), List(<<Link("a", "b")>>), List(<<Text("a")>>)}
ReplyValues ==
  Texts \cup Rest \cup {Text("long"), Text("longer"), Text(" z "), Text("Local"),
                        Text("interested"), Text("not-going"), Number(3), Answers(TRUE),
                        Answers(FALSE), List(<<Text(" a "), Text("long")>>), List(<<Null>>)}
CreateBase ==
  [title |-> Text("a"), start |-> Text("t2"), timezone |-> Text("z"), end |-> Text("t2"),
   description |-> Text("a"), location |-> Null, visibility |-> Text("private"),
   guestLimit |-> Number(2), links |-> List(<<Link("a", "u")>>), posterId |-> Text("a"),
   surprise |-> Gone]
UpdateBase == [f \in UpdateFields \cup {"location"} |-> IF f = "location" THEN Gone ELSE CreateBase[f]]
CancelBase == [message |-> Text("a"), notifyGuests |-> Bool(TRUE), title |-> Gone]
ReplyBase ==
  [status |-> Text("GOING"), displayName |-> Text("a"), partySize |-> Number(2),
   plusOnes |-> List(<<Text("a")>>), message |-> Text("a"), timezone |-> Text("z"),
   questionnaireResponse |-> Null, title |-> Gone]
WithInput(head, docs) ==
  [first |-> head \o <<"--input", "-">>, rest |-> {}, most |-> 0, files |-> docs]
MCDocuments ==
  {WithInput(<<"events", "create">>, Changed(CreateBase, EventValues)),
   WithInput(<<"events", "update", "e">>, Changed(UpdateBase, EventValues)),
   WithInput(<<"events", "cancel", "e">>, Changed(CancelBase, EventValues)),
   WithInput(<<"rsvp", "set", "e">>, Changed(ReplyBase, ReplyValues)),
   WithInput(<<"rsvp", "set", "e">>,
             Changed([status |-> Text("interested"), message |-> Gone], ReplyValues)),
   WithInput(<<"events", "update", "e">>, {[end |-> Null], [links |-> Null], <<>>, NoDocument})}

(* The commands that name an event, with no event ID. *)
MCUnnamed == {After(c.words, {}, 0) : c \in {d \in Catalog : d.taken \in {"guarded", "sliced"}}}

MCFamilies == MCLines \cup MCDocuments
=============================================================================
