--------------------------- MODULE InvocationProps ---------------------------
(***************************************************************************)
(* What a command line and a structured input promise to whoever wrote     *)
(* them.                                                                   *)
(***************************************************************************)
EXTENDS Invocation

(* Where the flags begin, and a reading of the words from there on: places *)
(* is where flags stand.  Each other word is the value of the flag before  *)
(* it, each flag is the command's and has its value, and only a flag that  *)
(* may be repeated stands twice.                                           *)
FirstFlag(c) == Len(c.words) + (IF c.taken = "plain" THEN 1 ELSE 2)
IsReading(c, line, places) ==
  /\ places \subseteq FirstFlag(c) .. Len(line)
  /\ \A i \in FirstFlag(c) .. Len(line) :
       (i \in places) <=> ~(i - 1 \in places /\ Takes(c, line[i - 1]))
  /\ \A i \in places : Knows(c, line[i]) /\ (Takes(c, line[i]) => i < Len(line))
  /\ \A i, j \in places : line[i] = line[j] /\ i # j => line[i] \in c.many

(* The options are those of a reading. *)
Follows(places) ==
  /\ DOMAIN values = {words[i] : i \in places} \ command.many
  /\ \A i \in places : words[i] \in command.values => values[words[i]] = words[i + 1]
  /\ DOMAIN many = {i + 1 : i \in {j \in places : words[j] \in command.many}}
  /\ \A i \in DOMAIN many : many[i] = words[i]

Readings == {places \in SUBSET (FirstFlag(command) .. Len(words)) : IsReading(command, words, places)}

(* A command line is read as its grammar says, in whatever order its flags *)
(* stand: what the loop took is a reading of all words, and a line that it *)
(* gives up at one of its flags has none.  Each word of argv is used once, *)
(* and the global flags count wherever they stand.                         *)
ReadAsMeant ==
  /\ FlagsRead =>
       /\ \E places \in Readings : Follows(places)
       /\ Len(argv) = Len(words) + Cardinality(globals)
  /\ pc = "done" /\ command # NoCommand /\ at \in FirstFlag(command) .. Len(words)
       => Readings = {}

(* The input that a preview shows. *)
Shown ==
  CASE command.name = "events.create" -> PublicCreate(answer.input)
    [] command.name = "events.update" -> PublicUpdate(answer.input)
    [] command.name = "events.cancel" -> PublicCancel(answer.input)
    [] command.name = "rsvp.set" -> PublicRSVP(answer.input)
Published ==
  CASE command.name = "events.create" -> Fits(Shown, {"title", "start", "timezone"}, CreateSchema)
    [] command.name = "events.update" -> Fits(Shown, {}, UpdateSchema)
    [] command.name = "events.cancel" ->
         Fits(Shown, DOMAIN CancelPreviewSchema, CancelPreviewSchema)
    [] command.name = "rsvp.set" ->
         Fits(Shown, DOMAIN RSVPPreviewSchema(answer.input.status),
              RSVPPreviewSchema(answer.input.status))

(* The same input, but for a list without links, which a preview shows as  *)
(* no links at all (event_write_input.go:96 and 159).                      *)
LinksOrNull(v) == IF v = List(<<>>) THEN Null ELSE v

(* The input that a preview shows is the one that would be submitted: it   *)
(* is of the type that the schema command publishes, and for a create or   *)
(* an update it can be given back as --input and is then taken for the     *)
(* same input, defaults, cleared fields and all.                           *)
PreviewIsFaithful ==
  pc = "done" /\ answer.code = "OK" /\ command.name \in ByInput =>
    /\ Published
    /\ command.name \in {"events.create", "events.update"} =>
         Normalize(command.name, Shown) =
           Taken([f \in DOMAIN answer.input |-> LinksOrNull(answer.input[f])])

(* docs/CLI-PRODUCT-CONTRACT.md:98 says that every failed command returns  *)
(* an error envelope: the program does not die on a command line.          *)
EveryFailureAnswers == answer.code # "panic"
=============================================================================
