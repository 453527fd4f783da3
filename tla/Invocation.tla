------------------------------ MODULE Invocation ------------------------------
(***************************************************************************)
(* One run of the program up to the point where it knows what it is asked  *)
(* to do: help, the global flags, which may stand anywhere, the command's  *)
(* words, the event ID, the command's flags and its structured input       *)
(* (internal/app: app.go, events.go, event_write_input.go, rsvp_input.go,  *)
(* blasts.go, guests.go, cohost_input.go, posters.go).                     *)
(***************************************************************************)
EXTENDS InputDocument, FiniteSets

CONSTANTS
  Families,  \* the inputs: the words that come first, those that may follow,
             \* how many of them, and what the line's --input would read
  Spelled,   \* Spelled[w]: the integer a word spells
  Json,      \* Json[w]: what another word is when it is read as JSON
  Parts,     \* Parts[w]: a word with an equals sign, split at the first one
  NoDocument \* nothing readable, or not one JSON object

ASSUME FamilyAssumption ==
  \A f \in Families :
    /\ f.first \in Seq(STRING) /\ f.rest \subseteq STRING /\ f.most \in Nat
    /\ \A doc \in f.files \ {NoDocument} : IsDocument(doc)

ASSUME JsonAssumption == \A w \in DOMAIN Json : OneKind(Json[w])

GlobalFlags == {"--pretty", "--non-interactive", "--dry-run", "--force", "--no-input"}
HelpFlags == {"-h", "--help"}

(* The catalog.  How a command is taken: exact, as its words alone; plain, *)
(* with flags; event, with an event ID alone; guarded or sliced, with an   *)
(* event ID and flags, the ID taken with or without asking how long argv   *)
(* is.  The flags that take a value, that take none, and that may be       *)
(* repeated; the global flags are listed too, but never reach a parser.    *)
Command(name, path, taken, one, none, several) ==
  [name |-> name, words |-> path, taken |-> taken, values |-> one, switches |-> none,
   many |-> several]
Alone(name, path, taken) == Command(name, path, taken, {}, {}, {})
Lister(name, path, taken, one) ==
  Command(name, path, taken, one \cup {"--limit", "--cursor", "--max-items"}, {"--all"}, {})
OfContact(name, path, taken) == Command(name, path, taken, {"--contact"}, {}, {})
UpdateFlags == {"--input", "--title", "--description", "--start", "--end", "--timezone",
                "--guest-limit", "--poster-id"}
AccountCommands ==
  {Alone("version", <<"--version">>, "exact"),
   Alone("schema", <<"schema">>, "exact"),
   Alone("auth.login", <<"auth", "login">>, "exact"),
   Alone("auth.status", <<"auth", "status">>, "exact"),
   Alone("auth.logout", <<"auth", "logout">>, "exact"),
   Alone("doctor", <<"doctor">>, "exact")}
ListCommands ==
  {Lister("posters.list", <<"posters", "list">>, "plain", {}),
   Lister("posters.search", <<"posters", "search">>, "plain", {"--query"}),
   Lister("contacts.list", <<"contacts", "list">>, "plain", {"--query"}),
   Lister("guests.list", <<"guests", "list">>, "guarded", {}),
   OfContact("guests.invite", <<"guests", "invite">>, "guarded"),
   Lister("events.list", <<"events", "list">>, "plain", {"--when"})}
EventCommands ==
  {Alone("events.get", <<"events", "get">>, "event"),
   Command("events.create", <<"events", "create">>, "plain",
           UpdateFlags \cup {"--location", "--visibility"}, {}, {"--link"}),
   Command("events.update", <<"events", "update">>, "sliced", UpdateFlags, {}, {"--link"}),
   Command("events.cancel", <<"events", "cancel">>, "sliced",
           {"--input", "--message", "--notify-guests"}, {}, {}),
   Command("blasts.send", <<"blasts", "send">>, "sliced", {"--audience", "--message-file"},
           {"--show-on-event-page"}, {})}
ReplyCommands ==
  {Alone("rsvp.get", <<"rsvp", "get">>, "event"),
   Command("rsvp.set", <<"rsvp", "set">>, "guarded",
           {"--input", "--status", "--display-name", "--party-size", "--message", "--timezone",
            "--questionnaire-response"}, {}, {"--plus-one"})}
CohostCommands ==
  {OfContact("cohosts.invite", <<"cohosts", "invite">>, "sliced"),
   OfContact("cohosts.revoke-invite", <<"cohosts", "revoke-invite">>, "sliced"),
   OfContact("cohosts.remove", <<"cohosts", "remove">>, "sliced"),
   Alone("cohosts.link.create", <<"cohosts", "link", "create">>, "sliced"),
   Alone("cohosts.link.revoke", <<"cohosts", "link", "revoke">>, "sliced")}
Catalog == AccountCommands \cup ListCommands \cup EventCommands \cup ReplyCommands \cup CohostCommands

Begins(path, start) == Len(start) <= Len(path) /\ SubSeq(path, 1, Len(start)) = start
Matches(c, given) ==
  IF c.taken # "exact" \/ (c.name = "schema" /\ Len(given) = 2) THEN Begins(given, c.words)
  ELSE given = c.words

NoCommand == Alone("none", <<>>, "exact")

VARIABLES
  input,    \* the command line, and the document its --input would read
  pc,       \* what the program is doing
  at,       \* the next word of the loop it is in
  words,    \* argv without the global flags
  globals,  \* the global flags seen
  command,  \* the definition that argv matches
  values,   \* values[f]: the value of a flag, "true" for a switch
  many,     \* the values of the repeated flag, by their place in words
  answer    \* what came of it

vars == <<input, pc, at, words, globals, command, values, many, answer>>

argv == input.argv
NoValues == [f \in {} |-> f]
With(f, key, value) == [k \in DOMAIN f \cup {key} |-> IF k = key THEN value ELSE f[k]]

TypeOK ==
  /\ pc \in {"start", "sift", "event", "flags", "document", "done"}
  /\ at \in Nat \ {0}
  /\ argv \in Seq(STRING) /\ words \in Seq(STRING)
  /\ globals \subseteq GlobalFlags
  /\ command \in Catalog \cup {NoCommand}
  /\ DOMAIN values \subseteq STRING
  /\ DOMAIN many \subseteq Nat

Init ==
  /\ \E f \in Families :
       \E n \in 0 .. f.most : \E rest \in [1 .. n -> f.rest] : \E doc \in f.files :
         input = [argv |-> f.first \o rest, file |-> doc]
  /\ pc = "start"
  /\ at = 1
  /\ words = <<>>
  /\ globals = {}
  /\ command = NoCommand
  /\ values = NoValues
  /\ many = NoValues
  /\ answer = [code |-> "none"]

Answer(result) == pc' = "done" /\ answer' = result
Fail(code) == Answer([code |-> code])

-----------------------------------------------------------------------------
(* Help comes first: asked for by the first word, or by -h or --help as    *)
(* any word, even as the value of a flag.                                  *)

HelpAsked ==
  \/ argv # <<>> /\ argv[1] = "help"
  \/ \E i \in DOMAIN argv : argv[i] \in HelpFlags

(* normalizeHelpPath: a dotted name is split.  One that is neither a       *)
(* command's nor that of the group cohosts.link is unknown either way.     *)
HelpPath(target) ==
  IF Len(target) # 1 THEN target
  ELSE IF \E c \in Catalog : c.name = target[1]
  THEN (CHOOSE c \in Catalog : c.name = target[1]).words
  ELSE IF target[1] = "cohosts.link" THEN <<"cohosts", "link">>
  ELSE target
HelpTarget ==
  IF argv # <<>> /\ argv[1] = "help" THEN HelpPath(Tail(argv))
  ELSE HelpPath(SelectSeq(argv, LAMBDA w : w \notin HelpFlags \cup GlobalFlags))

Help ==
  /\ pc = "start" /\ HelpAsked
  /\ IF \E c \in Catalog : Begins(c.words, HelpTarget) THEN Answer([code |-> "HELP"])
     ELSE Fail("HELP_UNKNOWN")
  /\ UNCHANGED <<input, at, words, globals, command, values, many>>

Begin ==
  /\ pc = "start" /\ ~HelpAsked
  /\ pc' = "sift"
  /\ UNCHANGED <<input, at, words, globals, command, values, many, answer>>

(* The global flags are taken out wherever they stand, as the value of     *)
(* another flag too.                                                       *)
SiftGlobal ==
  /\ pc = "sift" /\ at <= Len(argv) /\ argv[at] \in GlobalFlags
  /\ IF argv[at] \in globals
     THEN Fail("FLAG_REPEATED") /\ UNCHANGED <<globals, at>>
     ELSE /\ globals' = globals \cup {argv[at]}
          /\ at' = at + 1
          /\ UNCHANGED <<pc, answer>>
  /\ UNCHANGED <<input, words, command, values, many>>

SiftWord ==
  /\ pc = "sift" /\ at <= Len(argv) /\ argv[at] \notin GlobalFlags
  /\ words' = Append(words, argv[at])
  /\ at' = at + 1
  /\ UNCHANGED <<input, pc, globals, command, values, many, answer>>

(* Schema takes a command's dotted name; the other commands that take      *)
(* nothing start at once.                                                  *)
Start(c) ==
  IF c.name = "schema" /\ Len(words) = 2 /\ ~\E d \in Catalog : d.name = words[2]
  THEN Fail("COMMAND_SCHEMA_NOT_FOUND")
  ELSE Answer([code |-> "OK"])

Dispatch ==
  /\ pc = "sift" /\ at > Len(argv)
  /\ IF \E c \in Catalog : Matches(c, words)
     THEN \E c \in Catalog :
            /\ Matches(c, words)
            /\ command' = c
            /\ at' = Len(c.words) + 1
            /\ IF c.taken = "exact" THEN Start(c)
               ELSE pc' = (IF c.taken = "plain" THEN "flags" ELSE "event") /\ UNCHANGED answer
     ELSE Fail("COMMAND_NOT_FOUND") /\ UNCHANGED <<command, at>>
  /\ UNCHANGED <<input, words, globals, values, many>>

-----------------------------------------------------------------------------
(* The event ID.  A sliced command takes argv[:n+1] of words that end      *)
(* after n: Go extends them into the room that the global flags left,      *)
(* where the empty word is, and panics when there is none.                 *)

Panics == command.taken = "sliced" /\ Len(words) < at /\ Len(argv) < at
TakeEvent ==
  /\ pc = "event"
  /\ IF Panics THEN Fail("panic") /\ UNCHANGED at
     ELSE IF Len(words) < at \/ Trim(words[at]) = ""
     THEN Fail("EVENT_ID_REQUIRED") /\ UNCHANGED at
     ELSE IF command.taken # "event"
     THEN pc' = "flags" /\ at' = at + 1 /\ UNCHANGED answer
     ELSE (IF Len(words) = at THEN Answer([code |-> "OK"]) ELSE Fail("POSITIONAL_INVALID"))
          /\ UNCHANGED at
  /\ UNCHANGED <<input, words, globals, command, values, many>>

(* The loop over the flags, of which internal/app has six copies.  A value *)
(* may be any word, another flag too.  Mutant: a flag that is given twice  *)
(* keeps its last value.                                                   *)
Takes(c, flag) == flag \in c.values \cup c.many
Knows(c, flag) == Takes(c, flag) \/ flag \in c.switches
Flag == words[at]

LastOneWins ==                                                      \* mutant
  IF ~Knows(command, Flag) THEN "FLAG_UNKNOWN"
  ELSE IF Takes(command, Flag) /\ at = Len(words) THEN "FLAG_VALUE_REQUIRED"
  ELSE "none"
FlagProblem ==
  IF ~Knows(command, Flag) THEN "FLAG_UNKNOWN"
  ELSE IF Flag \notin command.many /\ Flag \in DOMAIN values THEN "FLAG_REPEATED"
  ELSE IF Takes(command, Flag) /\ at = Len(words) THEN "FLAG_VALUE_REQUIRED"
  ELSE "none"

ReadingFlag == pc = "flags" /\ at <= Len(words)

RefuseFlag ==
  /\ ReadingFlag /\ FlagProblem # "none"
  /\ Fail(FlagProblem)
  /\ UNCHANGED <<input, at, words, globals, command, values, many>>

TakeSwitch ==
  /\ ReadingFlag /\ FlagProblem = "none" /\ Flag \in command.switches
  /\ values' = With(values, Flag, "true")
  /\ at' = at + 1
  /\ UNCHANGED <<input, pc, words, globals, command, many, answer>>

TakeValue ==
  /\ ReadingFlag /\ FlagProblem = "none" /\ Flag \in command.values
  /\ values' = With(values, Flag, words[at + 1])
  /\ at' = at + 2
  /\ UNCHANGED <<input, pc, words, globals, command, many, answer>>

TakeRepeated ==
  /\ ReadingFlag /\ FlagProblem = "none" /\ Flag \in command.many
  /\ many' = With(many, at + 1, words[at + 1])
  /\ at' = at + 2
  /\ UNCHANGED <<input, pc, words, globals, command, values, answer>>

-----------------------------------------------------------------------------
(* What the flags must say.  A number is what strconv.Atoi takes.          *)

Listers == {"posters.list", "posters.search", "contacts.list", "guests.list", "events.list"}
ByContact == {"guests.invite", "cohosts.invite", "cohosts.revoke-invite", "cohosts.remove"}
ByInput == {"events.create", "events.update", "events.cancel", "rsvp.set"}

Has(flag) == flag \in DOMAIN values
ValueOf(flag) == IF Has(flag) THEN values[flag] ELSE ""
IsNumber(flag, limit) == ValueOf(flag) \in DOMAIN Spelled /\ Spelled[ValueOf(flag)] \in 1 .. limit

Checks ==
  CASE command.name \in Listers ->
         <<"LIMIT_INVALID", "CURSOR_INVALID", "QUERY_REQUIRED", "WHEN_INVALID",
           "MAX_ITEMS_INVALID", "MAX_ITEMS_REQUIRED", "ALL_REQUIRED", "LIMIT_WITH_ALL">>
    [] command.name = "blasts.send" ->
         <<"AUDIENCE_REQUIRED", "AUDIENCE_INVALID", "MESSAGE_FILE_REQUIRED">>
    [] command.name \in ByContact -> <<"CONTACT_REQUIRED">>
    [] command.name \in ByInput -> <<"INPUT_SOURCE_CONFLICT">>
    [] OTHER -> <<>>
Violates(check) ==
  CASE check = "LIMIT_INVALID" -> Has("--limit") /\ ~IsNumber("--limit", 100)
    [] check = "CURSOR_INVALID" -> Has("--cursor") /\ ValueOf("--cursor") = ""
    [] check = "QUERY_REQUIRED" ->
         /\ command.name = "posters.search" \/ Has("--query")
         /\ Trim(ValueOf("--query")) = ""
    [] check = "WHEN_INVALID" ->
         command.name = "events.list" /\ Lower(Trim(ValueOf("--when"))) \notin {"upcoming", "past"}
    [] check = "MAX_ITEMS_INVALID" -> Has("--max-items") /\ ~IsNumber("--max-items", 1000)
    [] check = "MAX_ITEMS_REQUIRED" -> Has("--all") /\ ~Has("--max-items")
    [] check = "ALL_REQUIRED" -> ~Has("--all") /\ Has("--max-items")
    [] check = "LIMIT_WITH_ALL" -> Has("--all") /\ Has("--limit")
    [] check = "AUDIENCE_REQUIRED" -> ValueOf("--audience") = ""
    [] check = "AUDIENCE_INVALID" -> ValueOf("--audience") # "all-guests"
    [] check = "MESSAGE_FILE_REQUIRED" -> ValueOf("--message-file") = ""
    [] check = "CONTACT_REQUIRED" -> Trim(ValueOf("--contact")) = ""
    [] check = "INPUT_SOURCE_CONFLICT" ->
         Has("--input") /\ (DOMAIN values # {"--input"} \/ DOMAIN many # {})

FlagsRead == pc = "flags" /\ at > Len(words)

CheckFlags ==
  /\ FlagsRead
  /\ LET problem == FirstOf(Checks, Violates) IN
     IF problem # None THEN Fail(problem)
     ELSE IF command.name \in ByInput THEN pc' = "document" /\ UNCHANGED answer
     ELSE Answer([code |-> "OK"])
  /\ UNCHANGED <<input, at, words, globals, command, values, many>>

(* The document that field flags stand for: text, but numbers, Booleans    *)
(* and questionnaire responses are the JSON that the word spells.          *)
FieldOf(flag) ==
  CASE flag = "--title" -> "title"
    [] flag = "--description" -> "description"
    [] flag = "--start" -> "start"
    [] flag = "--end" -> "end"
    [] flag = "--timezone" -> "timezone"
    [] flag = "--guest-limit" -> "guestLimit"
    [] flag = "--poster-id" -> "posterId"
    [] flag = "--location" -> "location"
    [] flag = "--visibility" -> "visibility"
    [] flag = "--message" -> "message"
    [] flag = "--notify-guests" -> "notifyGuests"
    [] flag = "--status" -> "status"
    [] flag = "--display-name" -> "displayName"
    [] flag = "--party-size" -> "partySize"
    [] flag = "--questionnaire-response" -> "questionnaireResponse"
JsonOf(w) ==
  IF w \in DOMAIN Spelled THEN Number(Spelled[w])
  ELSE IF w \in DOMAIN Json THEN Json[w]
  ELSE Other
FlagJson(flag) ==
  CASE flag \in {"--guest-limit", "--party-size"} -> JsonOf(values[flag])
    [] flag = "--notify-guests" -> JsonOf(Lower(values[flag]))
    [] flag = "--questionnaire-response" ->
         IF values[flag] = "" THEN Null ELSE JsonOf(values[flag])
    [] OTHER -> Text(values[flag])

(* The repeated values in the order of the words. *)
Repeated ==
  [k \in 1 .. Cardinality(DOMAIN many) |->
     many[CHOOSE i \in DOMAIN many : Cardinality({j \in DOMAIN many : j < i}) = k - 1]]
RepeatedJson ==
  IF command.name = "rsvp.set" THEN List([k \in DOMAIN Repeated |-> Text(Repeated[k])])
  ELSE List([k \in DOMAIN Repeated |-> Link(Parts[Repeated[k]][1], Parts[Repeated[k]][2])])
RepeatedField == IF command.name = "rsvp.set" THEN "plusOnes" ELSE "links"
LinksSplit == command.name = "rsvp.set" \/ \A i \in DOMAIN many : many[i] \in DOMAIN Parts

FlagsDocument ==
  LET scalars == DOMAIN values \ {"--input"}
      fields == [f \in {FieldOf(flag) : flag \in scalars} |->
                   FlagJson(CHOOSE flag \in scalars : FieldOf(flag) = f)] IN
  IF DOMAIN many = {} THEN fields ELSE With(fields, RepeatedField, RepeatedJson)

(* readRSVPInput: the path - means standard input; "" is no path. *)
Document ==
  IF ~Has("--input") THEN FlagsDocument
  ELSE IF ValueOf("--input") = "" THEN NoDocument
  ELSE input.file

Normalize(name, doc) ==
  CASE name = "events.create" -> NormalizeCreate(doc)
    [] name = "events.update" -> NormalizeUpdate(doc)
    [] name = "events.cancel" -> NormalizeCancel(doc)
    [] name = "rsvp.set" -> NormalizeRSVP(doc)

ReadDocument ==
  /\ pc = "document"
  /\ IF ~Has("--input") /\ ~LinksSplit THEN Fail("LINKS_INVALID")
     ELSE IF Document = NoDocument THEN Fail("INPUT_DOCUMENT_INVALID")
     ELSE Answer(Normalize(command.name, Document))
  /\ UNCHANGED <<input, at, words, globals, command, values, many>>

Next ==
  \/ Help \/ Begin \/ SiftGlobal \/ SiftWord \/ Dispatch \/ TakeEvent
  \/ RefuseFlag \/ TakeSwitch \/ TakeValue \/ TakeRepeated
  \/ CheckFlags \/ ReadDocument

Spec == Init /\ [][Next]_vars
=============================================================================
