---------------------------- MODULE InputDocument ----------------------------
(***************************************************************************)
(* The structured input of events create, events update, events cancel and *)
(* rsvp set: which JSON documents the normalisers take, in which order     *)
(* they refuse, what they make of them, what a preview shows of that, and  *)
(* the schemas that the schema command publishes (internal/app:            *)
(* event_write_input.go, rsvp_input.go).                                   *)
(*                                                                         *)
(* A document is a function from field names to JSON values.  Text is made *)
(* of words; the constants say what a word is.                             *)
(***************************************************************************)
EXTENDS Integers, Sequences

CONSTANTS
  Trimmed,   \* Trimmed[w]: what is left of a word with blanks around it
  Lowered,   \* Lowered[w]: a word with capitals in lower case
  Times,     \* Times[w]: the instant of an RFC 3339 timestamp
  Zones,     \* the timezones that load: the IANA names and Local
  Urls,      \* the absolute HTTP and HTTPS addresses
  Long       \* the words longer than the limits of rsvp set (50, 400)

Trim(w) == IF w \in DOMAIN Trimmed THEN Trimmed[w] ELSE w
Lower(w) == IF w \in DOMAIN Lowered THEN Lowered[w] ELSE w

ASSUME WordAssumption ==
  /\ \A w \in DOMAIN Trimmed : Trimmed[w] \notin DOMAIN Trimmed
  /\ \A w \in DOMAIN Times : Times[w] \in Int
  /\ DOMAIN Times \cap DOMAIN Trimmed = {}
  /\ Zones \cap DOMAIN Trimmed = {}
  /\ {"", "private", "Let's Party"} \cap DOMAIN Trimmed = {}
  /\ "" \notin DOMAIN Times \cup Zones

(* JSON values: records with one field, named for the kind.  A number may  *)
(* have text after it, which only a flag can bring (--guest-limit "5 x"),  *)
(* and answers is a questionnaire response.                                *)
Null == [null |-> TRUE]
Text(w) == [text |-> w]
Number(n) == [number |-> n]
Sloppy(n) == [sloppy |-> n]
Bool(b) == [bool |-> b]
List(values) == [list |-> values]
Link(label, url) == [link |-> <<label, url>>]
Answers(valid) == [answers |-> valid]
Other == [other |-> TRUE]
Is(kind, v) == kind \in DOMAIN v

(* A field has a value of one kind; link and answers stand for objects. *)
Kinds == {"null", "text", "number", "sloppy", "bool", "list", "link", "answers", "other"}
OneKind(v) == \E kind \in Kinds : Is(kind, v) /\ v = [k \in {kind} |-> v[kind]]
IsDocument(doc) == \A f \in DOMAIN doc : OneKind(doc[f])

(* json.Unmarshal into a string or a Boolean takes null for the zero value *)
(* of its type.                                                            *)
IsText(v) == v = Null \/ Is("text", v)
TextOf(v) == IF v = Null THEN "" ELSE v.text
IsBool(v) == v = Null \/ Is("bool", v)
BoolOf(v) == IF v = Null THEN FALSE ELSE v.bool

Given(doc, f) == f \in DOMAIN doc
Refused(f) == [code |-> "FIELD_INVALID", field |-> f]
Unknown == [code |-> "INPUT_FIELD_UNKNOWN"]
Taken(input) == [code |-> "OK", input |-> input]

(* The first field, in the order of the checks, that is refused; None when *)
(* all of them pass.                                                       *)
None == "none"
FirstOf(order, Fails(_)) ==
  IF \E i \in DOMAIN order : Fails(order[i])
  THEN order[CHOOSE i \in DOMAIN order :
               Fails(order[i]) /\ \A j \in 1 .. i - 1 : ~Fails(order[j])]
  ELSE None

-----------------------------------------------------------------------------
(* The decoders of event fields. *)

RequiredString(v) == IsText(v) /\ Trim(TextOf(v)) # ""
NullableString(v) == v = Null \/ RequiredString(v)
RequiredTime(v) == IsText(v) /\ Trim(TextOf(v)) \in DOMAIN Times
NullableTime(v) == v = Null \/ RequiredTime(v)
Timezone(v) == IsText(v) /\ Trim(TextOf(v)) \in Zones
(* The decoder reads one number and does not ask what comes after it. *)
NullablePositiveInteger(v) ==
  \/ v = Null
  \/ Is("number", v) /\ v.number >= 1
  \/ Is("sloppy", v) /\ v.sloppy >= 1
LinkEntry(v) == Is("link", v) /\ Trim(v.link[1]) # "" /\ Trim(v.link[2]) \in Urls
NullableLinks(v) ==
  \/ v = Null
  \/ Is("list", v) /\ \A i \in DOMAIN v.list : LinkEntry(v.list[i])
Visibility(v) == IsText(v) /\ Trim(TextOf(v)) \in {"private", "public"}

Decodes(f, v) ==
  CASE f = "title" -> RequiredString(v)
    [] f \in {"description", "location", "posterId"} -> NullableString(v)
    [] f = "start" -> RequiredTime(v)
    [] f = "end" -> NullableTime(v)
    [] f = "timezone" -> Timezone(v)
    [] f = "visibility" -> Visibility(v)
    [] f = "guestLimit" -> NullablePositiveInteger(v)
    [] f = "links" -> NullableLinks(v)

(* What a decoder keeps of a value. *)
Decoded(v) ==
  CASE Is("text", v) -> Text(Trim(v.text))
    [] Is("sloppy", v) -> Number(v.sloppy)
    [] Is("list", v) ->
         List([i \in DOMAIN v.list |-> Link(Trim(v.list[i].link[1]), Trim(v.list[i].link[2]))])
    [] OTHER -> v

-----------------------------------------------------------------------------
(* normalizeEventCreateInput *)

CreateOrder == <<"title", "start", "timezone", "end", "description", "location", "visibility",
                 "guestLimit", "links", "posterId">>
CreateFields == {CreateOrder[i] : i \in DOMAIN CreateOrder}
Default(f) ==
  CASE f = "visibility" -> Text("private")
    [] f = "posterId" -> Text("Let's Party")
    [] OTHER -> Null
InstantOf(v) == Times[Trim(TextOf(v))]
NormalizeCreate(doc) ==
  LET fails(f) == IF Given(doc, f) THEN ~Decodes(f, doc[f]) ELSE f \in {"title", "start", "timezone"}
      first == FirstOf(CreateOrder, fails) IN
  IF \E f \in DOMAIN doc : f \notin CreateFields THEN Unknown
  ELSE IF first # None THEN Refused(first)
  ELSE IF Given(doc, "end") /\ doc["end"] # Null /\ InstantOf(doc["end"]) < InstantOf(doc["start"])
  THEN [code |-> "EVENT_RANGE_INVALID"]
  ELSE Taken([f \in CreateFields |->
                IF Given(doc, f) /\ doc[f] # Null THEN Decoded(doc[f]) ELSE Default(f)])

(* public: what has no value, or no element, is left out. *)
PublicCreate(input) ==
  [f \in {g \in CreateFields : input[g] # Null /\ input[g] # List(<<>>)} |-> input[f]]

(* normalizeEventUpdateInput, and the check in parseEventUpdateOptions;    *)
(* null is kept and clears a field.                                        *)
UpdateOrder == <<"title", "description", "start", "end", "timezone", "guestLimit", "links",
                 "posterId">>
UpdateFields == {UpdateOrder[i] : i \in DOMAIN UpdateOrder}
NormalizeUpdate(doc) ==
  LET fails(f) == Given(doc, f) /\ ~Decodes(f, doc[f])
      first == FirstOf(UpdateOrder, fails) IN
  IF \E f \in DOMAIN doc : f \notin UpdateFields THEN Unknown
  ELSE IF first # None THEN Refused(first)
  ELSE IF DOMAIN doc = {} THEN [code |-> "UPDATE_FIELD_REQUIRED"]
  ELSE Taken([f \in DOMAIN doc |-> Decoded(doc[f])])

(* public: a list without elements becomes a nil slice, which is printed   *)
(* as null; mutant: an optional field that is null is left out, as on      *)
(* create.                                                                 *)
OmitNull(input) == [f \in {g \in DOMAIN input : input[g] # Null} |-> input[f]]  \* mutant
PublicUpdate(input) ==
  [f \in DOMAIN input |-> IF input[f] = List(<<>>) THEN Null ELSE input[f]]

(* normalizeEventCancelInput, and the preview of executeEventCancel. *)
NormalizeCancel(doc) ==
  IF \E f \in DOMAIN doc : f \notin {"message", "notifyGuests"} THEN Unknown
  ELSE IF Given(doc, "message") /\ ~IsText(doc["message"]) THEN Refused("message")
  ELSE IF Given(doc, "notifyGuests") /\ ~IsBool(doc["notifyGuests"]) THEN Refused("notifyGuests")
  ELSE Taken([message |-> IF Given(doc, "message") THEN TextOf(doc["message"]) ELSE "",
              notifyGuests |-> IF Given(doc, "notifyGuests") THEN BoolOf(doc["notifyGuests"])
                               ELSE TRUE])
PublicCancel(input) ==
  [messageProvided |-> Bool(input.message # ""), notifyGuests |-> Bool(input.notifyGuests)]

-----------------------------------------------------------------------------
(* normalizeRSVPInput *)

RSVPFields == {"status", "displayName", "partySize", "plusOnes", "message", "timezone",
               "questionnaireResponse"}
RSVPOrder == <<"displayName", "partySize", "plusOnes", "mismatch", "timezone", "message",
               "questionnaireResponse">>
TextIn(doc, f) == IF Given(doc, f) /\ IsText(doc[f]) THEN TextOf(doc[f]) ELSE ""
StatusIn(doc) == Lower(Trim(TextIn(doc, "status")))
PlusOnes(doc) == IF Given(doc, "plusOnes") THEN doc["plusOnes"].list ELSE <<>>
Questionnaire(doc) ==
  IF Given(doc, "questionnaireResponse") THEN doc["questionnaireResponse"] ELSE Null

(* optionalRSVPMessage: a blank message is no message. *)
Message(doc) ==
  IF Trim(TextIn(doc, "message")) = "" THEN Null ELSE Text(Trim(TextIn(doc, "message")))

QuestionnaireFits(doc) == ~(StatusIn(doc) = "not-going" /\ Questionnaire(doc) # Null)

RSVPFails(doc, f) ==
  CASE f = "displayName" ->
         Trim(TextIn(doc, f)) = "" \/ Trim(TextIn(doc, f)) \in Long[50]
    [] f = "partySize" -> ~(Given(doc, f) /\ Is("number", doc[f]) /\ doc[f].number >= 1)
    [] f = "plusOnes" ->
         Given(doc, f) /\ ~(/\ Is("list", doc[f])
                            /\ \A i \in DOMAIN doc[f].list :
                                 /\ IsText(doc[f].list[i])
                                 /\ Trim(TextOf(doc[f].list[i])) # "")
    [] f = "mismatch" -> doc["partySize"].number # 1 + Len(PlusOnes(doc))
    [] f = "timezone" -> TextIn(doc, f) \notin Zones \ {"Local"}
    [] f = "message" -> Given(doc, f) /\ (~IsText(doc[f]) \/ Trim(TextOf(doc[f])) \in Long[400])
    [] f = "questionnaireResponse" ->
         Questionnaire(doc) \notin {Null, Answers(TRUE)} \/ ~QuestionnaireFits(doc)

NormalizeRSVP(doc) ==
  LET fails(f) == RSVPFails(doc, f)
      first == FirstOf(RSVPOrder, fails) IN
  IF \E f \in DOMAIN doc : f \notin RSVPFields THEN Unknown
  ELSE IF StatusIn(doc) \notin {"going", "not-going", "interested"} THEN Refused("status")
  ELSE IF StatusIn(doc) = "interested"
  THEN IF DOMAIN doc = {"status"} THEN Taken([status |-> "interested"])
       ELSE [code |-> "INTEREST_INPUT_INVALID"]
  ELSE IF first # None THEN Refused(first)
  ELSE Taken([status |-> StatusIn(doc),
              displayName |-> Trim(TextIn(doc, "displayName")),
              partySize |-> doc["partySize"].number,
              plusOnes |-> [i \in DOMAIN PlusOnes(doc) |-> Trim(TextOf(PlusOnes(doc)[i]))],
              message |-> Message(doc),
              timezone |-> TextIn(doc, "timezone"),
              questionnaireResponse |-> Questionnaire(doc)])

(* public: the message itself is not shown. *)
PublicRSVP(input) ==
  IF input.status = "interested" THEN [status |-> Text("interested")]
  ELSE [status |-> Text(input.status),
        displayName |-> Text(input.displayName),
        partySize |-> Number(input.partySize),
        plusOnes |-> List([i \in DOMAIN input.plusOnes |-> Text(input.plusOnes[i])]),
        messageProvided |-> Bool(input.message # Null),
        timezone |-> Text(input.timezone),
        questionnaireResponse |-> input.questionnaireResponse]

-----------------------------------------------------------------------------
(* The published schemas: the fields an object must have, and the types    *)
(* each field may have.                                                    *)

Conforms(type, v) ==
  CASE type = "null" -> v = Null
    [] type = "string" -> Is("text", v)
    [] type = "nonempty" -> Is("text", v) /\ v.text # ""
    [] type = "visible" -> Is("text", v) /\ Trim(v.text) # "" /\ v.text \notin Long[50]
    [] type = "date-time" -> Is("text", v) /\ v.text \in DOMAIN Times
    [] type = "integer" -> Is("number", v)
    [] type = "positive" -> Is("number", v) /\ v.number >= 1
    [] type = "boolean" -> Is("bool", v)
    [] type = "links" ->
         Is("list", v) /\ \A i \in DOMAIN v.list : /\ Is("link", v.list[i])
                                                   /\ v.list[i].link[1] # ""
                                                   /\ v.list[i].link[2] \in Urls
    [] type = "names" ->
         Is("list", v) /\ \A i \in DOMAIN v.list :
                            Is("text", v.list[i]) /\ Trim(v.list[i].text) # ""
    [] type = "questionnaire" -> v = Answers(TRUE)
    [] OTHER -> Is("text", v) /\ v.text = type
Fits(doc, required, schema) ==
  /\ required \subseteq DOMAIN doc
  /\ \A f \in DOMAIN doc : f \in DOMAIN schema /\ \E type \in schema[f] : Conforms(type, doc[f])

CreateSchema ==
  [title |-> {"nonempty"}, start |-> {"date-time"}, end |-> {"date-time", "null"},
   timezone |-> {"nonempty"}, description |-> {"string", "null"}, location |-> {"string", "null"},
   visibility |-> {"private", "public"}, guestLimit |-> {"integer", "null"},
   links |-> {"links", "null"}, posterId |-> {"string", "null"}]
UpdateSchema ==
  [title |-> {"string"}, description |-> {"string", "null"}, start |-> {"date-time"},
   end |-> {"date-time", "null"}, timezone |-> {"string"}, guestLimit |-> {"integer", "null"},
   links |-> {"links", "null"}, posterId |-> {"string", "null"}]
CancelPreviewSchema == [messageProvided |-> {"boolean"}, notifyGuests |-> {"boolean"}]
RSVPPreviewSchema(status) ==
  IF status = "interested" THEN [status |-> {"interested"}]
  ELSE [status |-> {status}, displayName |-> {"visible"}, partySize |-> {"positive"},
        plusOnes |-> {"names"}, messageProvided |-> {"boolean"}, timezone |-> {"nonempty"},
        questionnaireResponse |-> IF status = "going" THEN {"questionnaire", "null"} ELSE {"null"}]
=============================================================================
