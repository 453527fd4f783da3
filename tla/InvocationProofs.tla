--------------------------- MODULE InvocationProofs ---------------------------
(***************************************************************************)
(* Proofs, for any command lines, of what MCInvocation checks on those of  *)
(* a few words: how a line is read, and of what it checks on a few         *)
(* documents: that a preview shows what would be submitted.                *)
(***************************************************************************)
EXTENDS InvocationProps, SequenceTheorems, FiniteSetTheorems, WellFoundedInduction, TLAPS

(* What the proofs need of the catalog: a flag is of one kind. *)
Shape(c) ==
  /\ Len(c.words) \in Nat
  /\ c.values \cap c.many = {}
  /\ c.switches \cap (c.values \cup c.many) = {}

LEMMA CommandShape ==
  ASSUME NEW name, NEW path, Len(path) \in Nat, NEW taken, NEW one, NEW none, NEW several,
         one \cap several = {}, none \cap (one \cup several) = {}
  PROVE  Shape(Command(name, path, taken, one, none, several))
  BY DEF Shape, Command
LEMMA AloneShape ==
  ASSUME NEW name, NEW path, Len(path) \in Nat, NEW taken
  PROVE  Shape(Alone(name, path, taken))
  BY CommandShape DEF Alone
LEMMA ListerShape ==
  ASSUME NEW name, NEW path, Len(path) \in Nat, NEW taken, NEW one, "--all" \notin one
  PROVE  Shape(Lister(name, path, taken, one))
  BY CommandShape DEF Lister
LEMMA OfContactShape ==
  ASSUME NEW name, NEW path, Len(path) \in Nat, NEW taken
  PROVE  Shape(OfContact(name, path, taken))
  BY CommandShape DEF OfContact
LEMMA AccountShape == \A c \in AccountCommands : Shape(c)
  BY AloneShape DEF AccountCommands
LEMMA ListShape == \A c \in ListCommands : Shape(c)
  BY ListerShape, OfContactShape DEF ListCommands
LEMMA EventShape == \A c \in EventCommands : Shape(c)
  BY AloneShape, CommandShape DEF EventCommands, UpdateFlags
LEMMA ReplyShape == \A c \in ReplyCommands : Shape(c)
  BY AloneShape, CommandShape DEF ReplyCommands
LEMMA CohostShape == \A c \in CohostCommands : Shape(c)
  BY AloneShape, OfContactShape DEF CohostCommands
LEMMA CatalogShape == \A c \in Catalog : Shape(c)
  BY AccountShape, ListShape, EventShape, ReplyShape, CohostShape DEF Catalog

-----------------------------------------------------------------------------
(* The words are argv without the globals, while they are being sifted and *)
(* after.                                                                  *)
Sifted ==
  /\ pc \in {"start", "sift"} => command = NoCommand /\ values = NoValues /\ many = NoValues
  /\ pc = "start" => at = 1 /\ words = <<>> /\ globals = {}
  /\ pc = "sift" => Len(words) + Cardinality(globals) = at - 1 /\ at - 1 <= Len(argv)
  /\ pc \in {"event", "flags"} => Len(argv) = Len(words) + Cardinality(globals)

(* The event ID is taken before any flag. *)
Placed ==
  pc = "event" => /\ command \in Catalog /\ command.taken # "plain"
                  /\ at = Len(command.words) + 1
                  /\ values = NoValues /\ many = NoValues

(* The places of the flags that the loop has passed are the only ones that *)
(* any reading of the whole line can give them.                            *)
Partial(places) ==
  /\ places \subseteq FirstFlag(command) .. at - 1
  /\ \A i \in FirstFlag(command) .. at - 1 :
       (i \in places) <=> ~(i - 1 \in places /\ Takes(command, words[i - 1]))
  /\ \A i \in places : /\ Knows(command, words[i])
                       /\ Takes(command, words[i]) => i + 1 <= at - 1
  /\ \A i, j \in places : words[i] = words[j] /\ i # j => words[i] \in command.many
  /\ Follows(places)
Only(places) ==
  \A other \in Readings : \A i \in FirstFlag(command) .. at - 1 : i \in other <=> i \in places
Looping ==
  pc = "flags" =>
    /\ command \in Catalog
    /\ at \in FirstFlag(command) .. Len(words) + 1
    /\ \E places \in SUBSET (1 .. Len(words)) : Partial(places) /\ Only(places)

(* A line at one of whose flags the loop has given up has no reading. *)
GivenUp ==
  /\ pc = "done" /\ command # NoCommand /\ at \in FirstFlag(command) .. Len(words) => Readings = {}
  /\ pc = "document" => at > Len(words)

(* The inductive invariant. *)
ReadInv == TypeOK /\ Sifted /\ Placed /\ Looping /\ GivenUp

-----------------------------------------------------------------------------
LEMMA TypesInit == Init => TypeOK
<1> SUFFICES ASSUME Init PROVE TypeOK
  OBVIOUS
<1>0. PICK f \in Families : \E n \in 0 .. f.most :
        \E rest \in [1 .. n -> f.rest] : \E doc \in f.files :
           input = [argv |-> f.first \o rest, file |-> doc]
  BY DEF Init
<1>1. PICK n \in 0 .. f.most : \E rest \in [1 .. n -> f.rest] : \E doc \in f.files :
        input = [argv |-> f.first \o rest, file |-> doc]
  BY <1>0
<1>2. PICK rest \in [1 .. n -> f.rest] : \E doc \in f.files :
        input = [argv |-> f.first \o rest, file |-> doc]
  BY <1>1
<1>3. rest \in Seq(STRING)
  BY FamilyAssumption, <1>2
<1>4. argv \in Seq(STRING)
  BY <1>2, <1>3, FamilyAssumption DEF argv
<1> QED BY <1>4 DEF Init, TypeOK, NoValues

LEMMA WithDomain ==
  ASSUME NEW f, NEW key, NEW value
  PROVE  DOMAIN With(f, key, value) = DOMAIN f \cup {key}
  BY DEF With
LEMMA WithValues ==
  ASSUME NEW f, NEW key, NEW value
  PROVE  /\ With(f, key, value)[key] = value
         /\ \A k \in DOMAIN f \ {key} : With(f, key, value)[k] = f[k]
  BY DEF With

LEMMA TypesStep == TypeOK /\ [Next]_vars => TypeOK'
<1> SUFFICES ASSUME TypeOK, [Next]_vars PROVE TypeOK'
  OBVIOUS
<1> USE DEF TypeOK, Answer, Fail
<1>0. input' = input => argv' = argv
  BY DEF argv
<1>1. CASE Help
  BY <1>0, <1>1 DEF Help
<1>2. CASE Begin
  BY <1>0, <1>2 DEF Begin
<1>3. CASE SiftGlobal
  BY <1>0, <1>3 DEF SiftGlobal
<1>4. CASE SiftWord
  <2>1. argv[at] \in STRING /\ at + 1 \in Nat
    BY <1>4, ElementOfSeq DEF SiftWord
  <2> QED BY <2>1, <1>0, <1>4, AppendProperties DEF SiftWord
<1>5. CASE Dispatch
  <2>1. command' \in Catalog \cup {NoCommand} /\ at' \in Nat /\ pc' \in {"flags", "event", "done"}
    BY <1>5, CatalogShape DEF Dispatch, Start, Shape
  <2> QED BY <2>1, <1>0, <1>5 DEF Dispatch
<1>6. CASE TakeEvent
  <2>1. pc' \in {"done", "flags"} /\ at' \in {at, at + 1}
    <3>1. CASE Panics
      BY <1>6, <3>1 DEF TakeEvent
    <3>2. CASE ~Panics /\ (Len(words) < at \/ Trim(words[at]) = "")
      BY <1>6, <3>2 DEF TakeEvent
    <3>3. CASE ~Panics /\ ~(Len(words) < at \/ Trim(words[at]) = "")
      BY <1>6, <3>3 DEF TakeEvent
    <3> QED BY <3>1, <3>2, <3>3
  <2>2. UNCHANGED <<input, words, globals, command, values, many>>
    BY <1>6 DEF TakeEvent
  <2>3. pc' \in {"start", "sift", "event", "flags", "document", "done"} /\ at' \in Nat \ {0}
    BY <2>1
  <2> QED BY <2>2, <2>3, <1>0
<1>7. CASE RefuseFlag
  BY <1>0, <1>7 DEF RefuseFlag
<1>8. CASE TakeSwitch
  <2>1. Flag \in STRING
    BY <1>8, ElementOfSeq DEF TakeSwitch, ReadingFlag, Flag
  <2>2. DOMAIN values' = DOMAIN values \cup {Flag}
    BY <1>8, WithDomain DEF TakeSwitch
  <2> QED BY <2>1, <2>2, <1>0, <1>8 DEF TakeSwitch
<1>9. CASE TakeValue
  <2>1. Flag \in STRING
    BY <1>9, ElementOfSeq DEF TakeValue, ReadingFlag, Flag
  <2>2. DOMAIN values' = DOMAIN values \cup {Flag}
    BY <1>9, WithDomain DEF TakeValue
  <2> QED BY <2>1, <2>2, <1>0, <1>9 DEF TakeValue
<1>10. CASE TakeRepeated
  <2>1. DOMAIN many' = DOMAIN many \cup {at + 1}
    BY <1>10, WithDomain DEF TakeRepeated
  <2> QED BY <2>1, <1>0, <1>10 DEF TakeRepeated
<1>11. CASE CheckFlags
  BY <1>0, <1>11 DEF CheckFlags
<1>12. CASE ReadDocument
  BY <1>0, <1>12 DEF ReadDocument
<1>13. CASE UNCHANGED vars
  BY <1>0, <1>13 DEF vars
<1> QED BY <1>1, <1>2, <1>3, <1>4, <1>5, <1>6, <1>7, <1>8, <1>9, <1>10, <1>11, <1>12, <1>13 DEF Next

(* The first theorem: every variable of a run stays in its domain.         *)
THEOREM InvocationTypes == Spec => []TypeOK
  BY TypesInit, TypesStep, PTL DEF Spec

-----------------------------------------------------------------------------
LEMMA GlobalsFinite ==
  ASSUME TypeOK
  PROVE  IsFiniteSet(globals) /\ Cardinality(globals) \in Nat
<1>1. IsFiniteSet({"--pretty"} \cup {"--non-interactive"})
  BY FS_EmptySet, FS_Singleton, FS_AddElement
<1>2. IsFiniteSet({"--pretty"} \cup {"--non-interactive"} \cup {"--dry-run"})
  BY <1>1, FS_AddElement
<1>3. IsFiniteSet({"--pretty"} \cup {"--non-interactive"} \cup {"--dry-run"} \cup {"--force"})
  BY <1>2, FS_AddElement
<1>4. IsFiniteSet({"--pretty"} \cup {"--non-interactive"} \cup {"--dry-run"} \cup {"--force"}
                  \cup {"--no-input"})
  BY <1>3, FS_AddElement
<1>5. IsFiniteSet(GlobalFlags)
  <2>1. GlobalFlags = {"--pretty"} \cup {"--non-interactive"} \cup {"--dry-run"} \cup {"--force"}
                      \cup {"--no-input"}
    BY DEF GlobalFlags
  <2> QED BY <2>1, <1>4
<1>6. IsFiniteSet(globals)
  BY <1>5, FS_Subset DEF TypeOK
<1> QED BY <1>6, FS_CardinalityType

LEMMA SiftedStep == TypeOK /\ Sifted /\ [Next]_vars => Sifted'
<1> SUFFICES ASSUME TypeOK, Sifted, [Next]_vars PROVE Sifted'
  OBVIOUS
<1> USE DEF Sifted, Answer, Fail
<1>0. input' = input => argv' = argv
  BY DEF argv
<1>1. CASE Help
  BY <1>1 DEF Help
<1>2. CASE Begin
  <2>1. Len(<<>>) = 0 /\ Cardinality({}) = 0 /\ Len(argv) \in Nat
    BY FS_EmptySet DEF TypeOK
  <2>2. words = <<>> /\ globals = {} /\ at = 1 /\ command = NoCommand
    BY <1>2 DEF Begin
  <2> QED BY <2>1, <2>2, <1>0, <1>2 DEF Begin
<1>3. CASE SiftGlobal
  <2>1. CASE argv[at] \in globals
    BY <1>3, <2>1 DEF SiftGlobal
  <2>2. CASE argv[at] \notin globals
    <3>2. IsFiniteSet(globals)
      BY GlobalsFinite
    <3>3. /\ Cardinality(globals \cup {argv[at]}) = Cardinality(globals) + 1
          /\ Cardinality(globals) \in Nat
      BY <3>2, <2>2, FS_AddElement, FS_CardinalityType
    <3>4. globals' = globals \cup {argv[at]} /\ at' = at + 1 /\ pc' = "sift"
      BY <1>3, <2>2 DEF SiftGlobal
    <3>5. Len(words) + Cardinality(globals) = at - 1 /\ at <= Len(argv)
      BY <1>3 DEF SiftGlobal
    <3>6. UNCHANGED <<input, words, command, values, many>>
      BY <1>3 DEF SiftGlobal
    <3>7. command = NoCommand /\ values = NoValues /\ many = NoValues
      BY <1>3 DEF SiftGlobal
    <3>8. Len(words) \in Nat /\ Len(argv) \in Nat /\ at \in Nat
      BY DEF TypeOK
    <3> QED BY <3>3, <3>4, <3>5, <3>6, <3>7, <3>8, <1>0
  <2> QED BY <2>1, <2>2
<1>4. CASE SiftWord
  <2>1. argv[at] \in STRING
    BY <1>4, ElementOfSeq DEF SiftWord, TypeOK
  <2>2. Len(words') = Len(words) + 1
    BY <2>1, <1>4, AppendProperties DEF SiftWord, TypeOK
  <2>3. /\ UNCHANGED <<input, pc, globals, command, values, many>>
        /\ at' = at + 1 /\ pc = "sift" /\ at <= Len(argv)
    BY <1>4 DEF SiftWord
  <2>4. Len(words) \in Nat /\ Len(argv) \in Nat /\ at \in Nat
    BY DEF TypeOK
  <2>5. Len(words) + Cardinality(globals) = at - 1
    BY <2>3
  <2>6. Cardinality(globals) = at - 1 - Len(words) /\ Cardinality(globals) \in Int
    BY GlobalsFinite, <2>5, <2>4
  <2> QED BY <2>2, <2>3, <2>4, <2>6, <1>0
<1>5. CASE Dispatch
  <2>1. pc' \in {"flags", "event", "done"} /\ UNCHANGED <<input, words, globals>>
    BY <1>5 DEF Dispatch, Start
  <2>2. Len(words) + Cardinality(globals) = at - 1 /\ at - 1 <= Len(argv) /\ at > Len(argv)
    BY <1>5 DEF Dispatch
  <2>3. Len(argv) \in Nat /\ at \in Nat /\ Len(words) \in Nat /\ Cardinality(globals) \in Nat
    BY GlobalsFinite DEF TypeOK
  <2>4. Len(argv) = Len(words) + Cardinality(globals)
    BY <2>2, <2>3
  <2> QED BY <2>1, <2>4, <1>0
<1>6. CASE TakeEvent
  <2>1. pc = "event" /\ pc' \in {"done", "flags"} /\ UNCHANGED <<input, words, globals>>
    BY <1>6 DEF TakeEvent
  <2> QED BY <2>1, <1>0
<1>7. CASE RefuseFlag
  BY <1>7 DEF RefuseFlag
<1>8. CASE TakeSwitch \/ TakeValue \/ TakeRepeated
  <2>1. pc = "flags" /\ UNCHANGED <<input, pc, words, globals>>
    BY <1>8 DEF TakeSwitch, TakeValue, TakeRepeated, ReadingFlag
  <2> QED BY <2>1, <1>0
<1>9. CASE CheckFlags
  <2>1. pc' \in {"done", "document"}
    BY <1>9 DEF CheckFlags
  <2> QED BY <2>1
<1>10. CASE ReadDocument
  BY <1>10 DEF ReadDocument
<1>11. CASE UNCHANGED vars
  BY <1>0, <1>11 DEF vars
<1> QED BY <1>1, <1>2, <1>3, <1>4, <1>5, <1>6, <1>7, <1>8, <1>9, <1>10, <1>11 DEF Next

LEMMA PlacedStep == TypeOK /\ Sifted /\ Placed /\ [Next]_vars => Placed'
<1> SUFFICES ASSUME TypeOK, Sifted, Placed, [Next]_vars PROVE Placed'
  OBVIOUS
<1> USE DEF Placed
<1>1. CASE Dispatch
  <2>1. CASE pc' = "event"
    <3>1. PICK c \in Catalog :
            /\ command' = c /\ at' = Len(c.words) + 1
            /\ c.taken # "exact" /\ c.taken # "plain"
      BY <1>1, <2>1 DEF Dispatch, Start, Answer, Fail
    <3>2. values' = NoValues /\ many' = NoValues
      BY <1>1 DEF Dispatch, Sifted
    <3> QED BY <3>1, <3>2
  <2>2. CASE pc' # "event"
    BY <2>2
  <2> QED BY <2>1, <2>2
<1>2. CASE Help \/ Begin \/ SiftGlobal \/ SiftWord
  <2>1. pc' \in {"sift", "done"}
    BY <1>2 DEF Help, Begin, SiftGlobal, SiftWord, Answer, Fail
  <2> QED BY <2>1
<1>3. CASE TakeEvent
  <2>1. pc' \in {"done", "flags"}
    BY <1>3 DEF TakeEvent, Answer, Fail
  <2> QED BY <2>1
<1>4. CASE RefuseFlag \/ TakeSwitch \/ TakeValue \/ TakeRepeated
  <2>1. pc' \in {"done", "flags"}
    BY <1>4 DEF RefuseFlag, TakeSwitch, TakeValue, TakeRepeated, ReadingFlag, Answer, Fail
  <2> QED BY <2>1
<1>5. CASE CheckFlags
  <2>1. pc' \in {"done", "document"}
    BY <1>5 DEF CheckFlags, Answer, Fail
  <2> QED BY <2>1
<1>6. CASE ReadDocument
  <2>1. pc' = "done"
    BY <1>6 DEF ReadDocument, Answer, Fail
  <2> QED BY <2>1
<1>7. CASE UNCHANGED vars
  BY <1>7 DEF vars
<1> QED BY <1>1, <1>2, <1>3, <1>4, <1>5, <1>6, <1>7 DEF Next

-----------------------------------------------------------------------------
LEMMA FirstFlagType ==
  ASSUME TypeOK, command \in Catalog
  PROVE  FirstFlag(command) \in Nat \ {0} /\ Len(words) \in Nat /\ at \in Nat
<1>1. Len(command.words) \in Nat
  BY CatalogShape DEF Shape
<1>2. FirstFlag(command) \in Nat \ {0}
  <2>1. CASE command.taken = "plain"
    BY <1>1, <2>1 DEF FirstFlag
  <2>2. CASE command.taken # "plain"
    BY <1>1, <2>2 DEF FirstFlag
  <2> QED BY <2>1, <2>2
<1>3. Len(words) \in Nat /\ at \in Nat
  BY DEF TypeOK
<1> QED BY <1>2, <1>3

(* The next word stands where a flag must stand, in every reading.         *)
LEMMA FlagIsNext ==
  ASSUME TypeOK, command \in Catalog, at \in FirstFlag(command) .. Len(words),
         NEW places \in SUBSET (1 .. Len(words)), Partial(places), Only(places)
  PROVE  /\ ~(at - 1 \in places /\ Takes(command, words[at - 1]))
         /\ \A other \in Readings : at \in other
<1>0. FirstFlag(command) \in Nat \ {0} /\ Len(words) \in Nat /\ at \in Nat
  BY FirstFlagType
<1>1. ~(at - 1 \in places /\ Takes(command, words[at - 1]))
  <2> SUFFICES ASSUME at - 1 \in places, Takes(command, words[at - 1]) PROVE FALSE
    OBVIOUS
  <2>1. at - 1 + 1 <= at - 1
    BY DEF Partial
  <2> QED BY <2>1, <1>0
<1>2. ASSUME NEW other \in Readings PROVE at \in other
  <2>1. other \subseteq FirstFlag(command) .. Len(words) /\ IsReading(command, words, other)
    BY DEF Readings
  <2>2. at \in other <=> ~(at - 1 \in other /\ Takes(command, words[at - 1]))
    BY <2>1 DEF IsReading
  <2>3. ASSUME at - 1 \in other PROVE at - 1 \in places
    <3>1. at - 1 \in FirstFlag(command) .. at - 1
      BY <2>1, <2>3, <1>0
    <3> QED BY <2>3, <3>1 DEF Only
  <2> QED BY <2>2, <2>3, <1>1
<1> QED BY <1>1, <1>2

(* A flag that may not be repeated and stands before has a value already.  *)
LEMMA SeenBefore ==
  ASSUME NEW places, Follows(places), NEW i \in places, words[i] \notin command.many
  PROVE  words[i] \in DOMAIN values
  BY DEF Follows

LEMMA RefusedHasNone ==
  ASSUME TypeOK, command \in Catalog, at \in FirstFlag(command) .. Len(words),
         NEW places \in SUBSET (1 .. Len(words)), Partial(places), Only(places),
         FlagProblem # "none"
  PROVE  Readings = {}
<1> SUFFICES ASSUME NEW other \in Readings PROVE FALSE
  OBVIOUS
<1>0. FirstFlag(command) \in Nat \ {0} /\ Len(words) \in Nat /\ at \in Nat
  BY FirstFlagType
<1>1. at \in other
  BY FlagIsNext
<1>2. IsReading(command, words, other)
  BY DEF Readings
<1>3. Knows(command, words[at]) /\ (Takes(command, words[at]) => at < Len(words))
  BY <1>1, <1>2 DEF IsReading
<1>4. Flag \notin command.many /\ Flag \in DOMAIN values
  BY <1>0, <1>3 DEF FlagProblem, Flag
<1>5. PICK i \in places : words[i] = Flag
  BY <1>4 DEF Partial, Follows
<1>6. i \in FirstFlag(command) .. at - 1
  BY DEF Partial
<1>7. i \in other /\ i # at
  BY <1>6, <1>0 DEF Only
<1> QED BY <1>1, <1>2, <1>4, <1>5, <1>7 DEF IsReading, Flag

(* What a flag adds, whatever it takes: its place, and nothing before it.  *)
LEMMA PlaceAdded ==
  ASSUME TypeOK, command \in Catalog, at \in FirstFlag(command) .. Len(words),
         NEW places \in SUBSET (1 .. Len(words)), Partial(places), Only(places),
         FlagProblem = "none", UNCHANGED <<words, command>>,
         at' = IF Takes(command, Flag) THEN at + 2 ELSE at + 1,
         NEW more, more = places \cup {at}, Follows(more)'
  PROVE  /\ at' \in FirstFlag(command) .. Len(words) + 1
         /\ more \in SUBSET (1 .. Len(words))
         /\ Partial(more)'
         /\ Only(more)'
<1>0. FirstFlag(command) \in Nat \ {0} /\ Len(words) \in Nat /\ at \in Nat
  BY FirstFlagType
<1>1. /\ ~(at - 1 \in places /\ Takes(command, words[at - 1]))
      /\ \A other \in Readings : at \in other
  BY FlagIsNext
<1>2. /\ places \subseteq FirstFlag(command) .. at - 1
      /\ Follows(places)
  BY DEF Partial
<1>3. Knows(command, Flag) /\ (Takes(command, Flag) => at < Len(words))
  BY <1>0 DEF FlagProblem
<1>4. Flag \notin command.many => Flag \notin DOMAIN values
  BY DEF FlagProblem
<1>5. at' \in FirstFlag(command) .. Len(words) + 1 /\ at + 1 <= at'
  BY <1>0, <1>3
<1>6. more \subseteq 1 .. Len(words)
  BY <1>0
<1>7. more \subseteq FirstFlag(command) .. at' - 1
  BY <1>0, <1>2, <1>5
<1>8. ASSUME NEW i \in FirstFlag(command) .. at' - 1
      PROVE  (i \in more) <=> ~(i - 1 \in more /\ Takes(command, words[i - 1]))
  <2>1. CASE i < at
    <3>1. i \in FirstFlag(command) .. at - 1 /\ i # at /\ i - 1 # at
      BY <1>0, <2>1
    <3>2. (i \in places) <=> ~(i - 1 \in places /\ Takes(command, words[i - 1]))
      BY <3>1 DEF Partial
    <3> QED BY <3>1, <3>2
  <2>2. CASE i = at
    <3>1. i - 1 # at
      BY <1>0, <2>2
    <3> QED BY <1>1, <2>2, <3>1
  <2>3. CASE i > at
    <3>1. i = at + 1 /\ Takes(command, Flag)
      BY <1>0, <2>3
    <3>2. i \notin more /\ i - 1 = at
      BY <3>1, <1>0, <1>2
    <3> QED BY <3>1, <3>2 DEF Flag
  <2> QED BY <1>0, <2>1, <2>2, <2>3
<1>9. ASSUME NEW i \in more
      PROVE  Knows(command, words[i]) /\ (Takes(command, words[i]) => i + 1 <= at' - 1)
  <2>1. CASE i \in places
    <3>1. Knows(command, words[i]) /\ (Takes(command, words[i]) => i + 1 <= at - 1)
      BY <2>1 DEF Partial
    <3>2. i \in Nat
      BY <1>6
    <3> QED BY <3>1, <3>2, <1>0, <1>5
  <2>2. CASE i = at
    BY <2>2, <1>0, <1>3 DEF Flag
  <2> QED BY <2>1, <2>2
<1>10. ASSUME NEW i \in places, words[i] = Flag PROVE Flag \in command.many
  BY <1>2, <1>4, <1>10, SeenBefore
<1>11. ASSUME NEW i \in more, NEW j \in more, words[i] = words[j], i # j
       PROVE  words[i] \in command.many
  <2>1. CASE i \in places /\ j \in places
    BY <2>1, <1>11 DEF Partial
  <2>2. CASE i = at
    BY <2>2, <1>10, <1>11 DEF Flag
  <2>3. CASE j = at
    BY <2>3, <1>10, <1>11 DEF Flag
  <2> QED BY <2>1, <2>2, <2>3
<1>12. Partial(more)'
  <2>1. words' = words /\ command' = command /\ FirstFlag(command)' = FirstFlag(command)
    BY DEF FirstFlag
  <2>2. \A i : Knows(command, words[i])' = Knows(command, words[i])
    BY <2>1 DEF Knows, Takes
  <2> QED BY <2>1, <1>7, <1>8, <1>9, <1>11 DEF Partial, FirstFlag, Knows, Takes
<1>13. Only(more)'
  <2>1. Readings' = Readings
    BY DEF Readings, IsReading, FirstFlag, Knows, Takes
  <2>2. ASSUME NEW other \in Readings, NEW i \in FirstFlag(command) .. at' - 1
        PROVE  i \in other <=> i \in more
    <3>1. CASE i < at
      <4>1. i \in FirstFlag(command) .. at - 1 /\ i # at
        BY <1>0, <3>1
      <4> QED BY <4>1 DEF Only
    <3>2. CASE i = at
      BY <3>2, <1>1
    <3>3. CASE i > at
      <4>1. i = at + 1 /\ Takes(command, Flag) /\ i - 1 = at
        BY <1>0, <3>3
      <4>2. i \in FirstFlag(command) .. Len(words)
        BY <4>1, <1>0, <1>3
      <4>3. i \notin other
        BY <4>1, <4>2, <1>1 DEF Readings, IsReading, Flag
      <4>4. i \notin more
        BY <4>1, <1>0, <1>2
      <4> QED BY <4>3, <4>4
    <3> QED BY <1>0, <3>1, <3>2, <3>3
  <2> QED BY <2>1, <2>2 DEF Only, FirstFlag
<1> QED BY <1>5, <1>6, <1>12, <1>13

(* Each flag leaves the options those of the places passed.                *)
LEMMA SwitchFollows ==
  ASSUME TypeOK, command \in Catalog, at \in FirstFlag(command) .. Len(words),
         NEW places \in SUBSET (1 .. Len(words)), Partial(places),
         NEW more, more = places \cup {at}, TakeSwitch
  PROVE  Follows(more)'
<1>1. /\ UNCHANGED <<words, command, many>> /\ values' = With(values, Flag, "true")
      /\ Flag \in command.switches
  BY DEF TakeSwitch
<1>2. Flag \notin command.values /\ Flag \notin command.many
  BY <1>1, CatalogShape DEF Shape
<1>3. Follows(places)
  BY DEF Partial
<1>4. /\ DOMAIN values' = DOMAIN values \cup {Flag}
      /\ \A k \in DOMAIN values \ {Flag} : values'[k] = values[k]
  <2>1. values' = [k \in DOMAIN values \cup {Flag} |-> IF k = Flag THEN "true" ELSE values[k]]
    BY <1>1 DEF With
  <2> QED BY <2>1
<1>5. DOMAIN values' = {words[i] : i \in more} \ command.many
  BY <1>2, <1>3, <1>4 DEF Follows, Flag
<1>6. ASSUME NEW i \in more, words[i] \in command.values
      PROVE  values'[words[i]] = words[i + 1]
  <2>1. words[i] # Flag /\ i \in places
    BY <1>2, <1>6 DEF Flag
  <2>2. words[i] \notin command.many
    BY <1>6, CatalogShape DEF Shape
  <2>3. words[i] \in DOMAIN values /\ values[words[i]] = words[i + 1]
    BY <1>3, <1>6, <2>1, <2>2 DEF Follows
  <2> QED BY <1>4, <2>1, <2>3
<1>7. {j \in more : words[j] \in command.many} = {j \in places : words[j] \in command.many}
  BY <1>2 DEF Flag
<1>8. /\ DOMAIN many = {i + 1 : i \in {j \in more : words[j] \in command.many}}
      /\ \A i \in DOMAIN many : many[i] = words[i]
  BY <1>3, <1>7 DEF Follows
<1> QED BY <1>1, <1>5, <1>6, <1>8 DEF Follows

LEMMA ValueFollows ==
  ASSUME TypeOK, command \in Catalog, at \in FirstFlag(command) .. Len(words),
         NEW places \in SUBSET (1 .. Len(words)), Partial(places),
         NEW more, more = places \cup {at}, TakeValue
  PROVE  Follows(more)'
<1>1. /\ UNCHANGED <<words, command, many>> /\ values' = With(values, Flag, words[at + 1])
      /\ Flag \in command.values /\ FlagProblem = "none"
  BY DEF TakeValue
<1>2. Flag \notin command.many
  BY <1>1, CatalogShape DEF Shape
<1>3. Follows(places)
  BY DEF Partial
<1>4. /\ DOMAIN values' = DOMAIN values \cup {Flag}
      /\ values'[Flag] = words[at + 1]
      /\ \A k \in DOMAIN values \ {Flag} : values'[k] = values[k]
  <2>1. values' = [k \in DOMAIN values \cup {Flag} |-> IF k = Flag THEN words[at + 1] ELSE values[k]]
    BY <1>1 DEF With
  <2> QED BY <2>1
<1>5. DOMAIN values' = {words[i] : i \in more} \ command.many
  BY <1>2, <1>3, <1>4 DEF Follows, Flag
<1>6. ASSUME NEW i \in more, words[i] \in command.values
      PROVE  values'[words[i]] = words[i + 1]
  <2>1. CASE i = at
    BY <2>1, <1>4 DEF Flag
  <2>2. CASE i \in places
    <3>1. words[i] \notin command.many
      BY <1>6, CatalogShape DEF Shape
    <3>2. words[i] \in DOMAIN values /\ values[words[i]] = words[i + 1]
      BY <1>3, <1>6, <2>2, <3>1 DEF Follows
    <3>3. Flag \notin DOMAIN values
      BY <1>1, <1>2 DEF FlagProblem
    <3> QED BY <1>4, <3>2, <3>3
  <2> QED BY <2>1, <2>2
<1>7. {j \in more : words[j] \in command.many} = {j \in places : words[j] \in command.many}
  BY <1>2 DEF Flag
<1>8. /\ DOMAIN many = {i + 1 : i \in {j \in more : words[j] \in command.many}}
      /\ \A i \in DOMAIN many : many[i] = words[i]
  BY <1>3, <1>7 DEF Follows
<1> QED BY <1>1, <1>5, <1>6, <1>8 DEF Follows

LEMMA RepeatedFollows ==
  ASSUME TypeOK, command \in Catalog, at \in FirstFlag(command) .. Len(words),
         NEW places \in SUBSET (1 .. Len(words)), Partial(places),
         NEW more, more = places \cup {at}, TakeRepeated
  PROVE  Follows(more)'
<1>1. /\ UNCHANGED <<words, command, values>> /\ many' = With(many, at + 1, words[at + 1])
      /\ Flag \in command.many
  BY DEF TakeRepeated
<1>2. Flag \notin command.values
  BY <1>1, CatalogShape DEF Shape
<1>3. Follows(places)
  BY DEF Partial
<1>4. /\ DOMAIN many' = DOMAIN many \cup {at + 1}
      /\ many'[at + 1] = words[at + 1]
      /\ \A k \in DOMAIN many \ {at + 1} : many'[k] = many[k]
  <2>1. many' = [k \in DOMAIN many \cup {at + 1} |-> IF k = at + 1 THEN words[at + 1] ELSE many[k]]
    BY <1>1 DEF With
  <2> QED BY <2>1
<1>5. DOMAIN values = {words[i] : i \in more} \ command.many
  BY <1>1, <1>3 DEF Follows, Flag
<1>6. \A i \in more : words[i] \in command.values => values[words[i]] = words[i + 1]
  BY <1>2, <1>3 DEF Follows, Flag
<1>7. {j \in more : words[j] \in command.many}
        = {j \in places : words[j] \in command.many} \cup {at}
  BY <1>1 DEF Flag
<1>8. DOMAIN many' = {i + 1 : i \in {j \in more : words[j] \in command.many}}
  BY <1>3, <1>4, <1>7 DEF Follows
<1>9. \A i \in DOMAIN many' : many'[i] = words[i]
  BY <1>3, <1>4 DEF Follows
<1> QED BY <1>1, <1>5, <1>6, <1>8, <1>9 DEF Follows

-----------------------------------------------------------------------------
LEMMA TakesStep ==
  ASSUME TypeOK, Looping, TakeSwitch \/ TakeValue \/ TakeRepeated
  PROVE  Looping'
<1>1. /\ pc = "flags" /\ at <= Len(words) /\ FlagProblem = "none"
      /\ UNCHANGED <<words, command, pc>>
  BY DEF TakeSwitch, TakeValue, TakeRepeated, ReadingFlag
<1>2. command \in Catalog /\ at \in FirstFlag(command) .. Len(words) + 1
  BY <1>1 DEF Looping
<1>3. at \in FirstFlag(command) .. Len(words)
  BY <1>1, <1>2, FirstFlagType
<1>4. PICK places \in SUBSET (1 .. Len(words)) : Partial(places) /\ Only(places)
  BY <1>1 DEF Looping
<1>5. PICK more \in SUBSET (places \cup {at}) : more = places \cup {at}
  OBVIOUS
<1>6. Follows(more)'
  BY <1>2, <1>3, <1>4, <1>5, SwitchFollows, ValueFollows, RepeatedFollows
<1>7. at' = IF Takes(command, Flag) THEN at + 2 ELSE at + 1
  <2>1. CASE TakeSwitch
    <3>1. Flag \in command.switches /\ at' = at + 1
      BY <2>1 DEF TakeSwitch
    <3>2. ~Takes(command, Flag)
      BY <3>1, <1>2, CatalogShape DEF Shape, Takes
    <3> QED BY <3>1, <3>2
  <2>2. CASE TakeValue
    BY <2>2 DEF TakeValue, Takes
  <2>3. CASE TakeRepeated
    BY <2>3 DEF TakeRepeated, Takes
  <2> QED BY <2>1, <2>2, <2>3
<1>8. /\ at' \in FirstFlag(command) .. Len(words) + 1
      /\ more \in SUBSET (1 .. Len(words))
      /\ Partial(more)'
      /\ Only(more)'
  BY <1>1, <1>2, <1>3, <1>4, <1>5, <1>6, <1>7, PlaceAdded
<1>9. command' \in Catalog /\ at' \in FirstFlag(command)' .. Len(words') + 1
  BY <1>1, <1>2, <1>8 DEF FirstFlag
<1> QED BY <1>1, <1>8, <1>9 DEF Looping

(* The loop starts with no flag passed. *)
LEMMA LoopStarts ==
  ASSUME command' \in Catalog, at' = FirstFlag(command'), at' \in Nat, Len(words') \in Nat,
         at' <= Len(words') + 1, values' = NoValues, many' = NoValues
  PROVE  Looping'
<1>1. FirstFlag(command') .. at' - 1 = {}
  OBVIOUS
<1>2. DOMAIN NoValues = {}
  BY DEF NoValues
<1>3. Follows({})'
  BY <1>2 DEF Follows
<1>4. Partial({})' /\ Only({})'
  BY <1>1, <1>3 DEF Partial, Only
<1>5. {} \in SUBSET (1 .. Len(words'))
  OBVIOUS
<1>6. at' \in FirstFlag(command') .. Len(words') + 1
  OBVIOUS
<1> QED BY <1>4, <1>5, <1>6 DEF Looping

LEMMA LoopingStep == TypeOK /\ Sifted /\ Placed /\ Looping /\ [Next]_vars => Looping'
<1> SUFFICES ASSUME TypeOK, Sifted, Placed, Looping, [Next]_vars PROVE Looping'
  OBVIOUS
<1>0. TypeOK'
  BY TypesStep
<1>1. CASE Dispatch
  <2>1. CASE pc' = "flags"
    <3>1. PICK c \in Catalog :
            /\ Matches(c, words) /\ command' = c /\ at' = Len(c.words) + 1
            /\ c.taken = "plain"
      BY <1>1, <2>1 DEF Dispatch, Start, Answer, Fail
    <3>2. values' = NoValues /\ many' = NoValues /\ words' = words
      BY <1>1 DEF Dispatch, Sifted
    <3>3. Len(c.words) <= Len(words)
      BY <3>1 DEF Matches, Begins
    <3>4. Len(c.words) \in Nat /\ Len(words) \in Nat
      BY <3>1, CatalogShape DEF Shape, TypeOK
    <3>5. at' = FirstFlag(command') /\ at' \in Nat /\ at' <= Len(words') + 1
      BY <3>1, <3>2, <3>3, <3>4 DEF FirstFlag
    <3> QED BY <3>1, <3>2, <3>4, <3>5, LoopStarts
  <2>2. CASE pc' # "flags"
    BY <2>2 DEF Looping
  <2> QED BY <2>1, <2>2
<1>2. CASE TakeEvent
  <2>1. CASE pc' = "flags"
    <3>1. /\ pc = "event" /\ at <= Len(words) /\ at' = at + 1 /\ command' = command
          /\ words' = words /\ values' = values /\ many' = many
      <4>1. pc = "event" /\ UNCHANGED <<words, command, values, many>>
        BY <1>2 DEF TakeEvent
      <4>2. ~Panics /\ ~(Len(words) < at \/ Trim(words[at]) = "") /\ at' = at + 1
        BY <1>2, <2>1 DEF TakeEvent, Answer, Fail
      <4>3. Len(words) \in Nat /\ at \in Nat
        BY DEF TypeOK
      <4>4. ~(Len(words) < at) /\ at' = at + 1
        BY <4>2
      <4> QED BY <4>1, <4>3, <4>4
    <3>2. /\ command \in Catalog /\ command.taken # "plain" /\ at = Len(command.words) + 1
          /\ values = NoValues /\ many = NoValues
      BY <3>1 DEF Placed
    <3>3. Len(command.words) \in Nat /\ Len(words) \in Nat
      BY <3>2, CatalogShape DEF Shape, TypeOK
    <3>4. at' = FirstFlag(command') /\ at' \in Nat /\ at' <= Len(words') + 1
      BY <3>1, <3>2, <3>3 DEF FirstFlag
    <3> QED BY <3>1, <3>2, <3>3, <3>4, LoopStarts
  <2>2. CASE pc' # "flags"
    BY <2>2 DEF Looping
  <2> QED BY <2>1, <2>2
<1>3. CASE TakeSwitch \/ TakeValue \/ TakeRepeated
  BY <1>3, TakesStep
<1>4. CASE Help \/ Begin \/ SiftGlobal \/ SiftWord \/ RefuseFlag
  <2>1. pc' \in {"sift", "done"}
    BY <1>4 DEF Help, Begin, SiftGlobal, SiftWord, RefuseFlag, Answer, Fail
  <2> QED BY <2>1 DEF Looping
<1>5. CASE CheckFlags
  <2>1. pc' \in {"document", "done"}
    BY <1>5 DEF CheckFlags, Answer, Fail
  <2> QED BY <2>1 DEF Looping
<1>6. CASE ReadDocument
  <2>1. pc' = "done"
    BY <1>6 DEF ReadDocument, Answer, Fail
  <2> QED BY <2>1 DEF Looping
<1>7. CASE UNCHANGED vars
  <2>1. UNCHANGED <<pc, at, words, command, values, many>>
    BY <1>7 DEF vars
  <2>2. CASE pc = "flags"
    <3>1. PICK places \in SUBSET (1 .. Len(words)) : Partial(places) /\ Only(places)
      BY <2>2 DEF Looping
    <3>2. FirstFlag(command)' = FirstFlag(command) /\ Readings' = Readings
      BY <2>1 DEF Readings, IsReading, FirstFlag
    <3>3. Only(places)'
      BY <2>1, <3>1, <3>2 DEF Only
    <3>4. Follows(places)'
      BY <2>1, <3>1 DEF Partial, Follows
    <3>5. Partial(places)'
      BY <2>1, <3>1, <3>2, <3>4 DEF Partial
    <3> QED BY <2>1, <2>2, <3>1, <3>2, <3>3, <3>5 DEF Looping
  <2>3. CASE pc # "flags"
    BY <2>1, <2>3 DEF Looping
  <2> QED BY <2>2, <2>3
<1> QED BY <1>1, <1>2, <1>3, <1>4, <1>5, <1>6, <1>7 DEF Next

LEMMA GivenUpStep ==
  TypeOK /\ Sifted /\ Placed /\ Looping /\ GivenUp /\ [Next]_vars => GivenUp'
<1> SUFFICES ASSUME TypeOK, Sifted, Placed, Looping, GivenUp, [Next]_vars PROVE GivenUp'
  OBVIOUS
<1>1. CASE Help \/ SiftGlobal
  <2>1. pc' # "document" /\ command' = NoCommand
    BY <1>1 DEF Help, SiftGlobal, Sifted, Answer, Fail
  <2> QED BY <2>1 DEF GivenUp
<1>2. CASE Begin \/ SiftWord \/ TakeSwitch \/ TakeValue \/ TakeRepeated
  <2>1. pc' \in {"sift", "flags"}
    BY <1>2 DEF Begin, SiftWord, TakeSwitch, TakeValue, TakeRepeated, ReadingFlag
  <2> QED BY <2>1 DEF GivenUp
<1>3. CASE Dispatch
  <2>1. pc' # "document"
    BY <1>3 DEF Dispatch, Start, Answer, Fail
  <2>2. ASSUME pc' = "done", command' # NoCommand
        PROVE  at' \notin FirstFlag(command') .. Len(words')
    <3>1. command = NoCommand
      BY <1>3 DEF Dispatch, Sifted
    <3>2. PICK c \in Catalog : command' = c /\ at' = Len(c.words) + 1 /\ c.taken = "exact"
      BY <1>3, <2>2, <3>1 DEF Dispatch
    <3>3. Len(c.words) \in Nat
      BY CatalogShape DEF Shape
    <3>4. FirstFlag(c) = Len(c.words) + 2
      BY <3>2 DEF FirstFlag
    <3>5. at' \notin FirstFlag(c) .. Len(words')
      BY <3>2, <3>3, <3>4
    <3> QED BY <3>2, <3>5
  <2> QED BY <2>1, <2>2 DEF GivenUp
<1>4. CASE TakeEvent
  <2>1. /\ pc = "event" /\ pc' \in {"done", "flags"} /\ UNCHANGED <<words, command>>
        /\ pc' = "done" => at' = at
    BY <1>4 DEF TakeEvent, Answer, Fail
  <2>2. command \in Catalog /\ command.taken # "plain" /\ at = Len(command.words) + 1
    BY <2>1 DEF Placed
  <2>3. Len(command.words) \in Nat
    BY <2>2, CatalogShape DEF Shape
  <2>4. FirstFlag(command') = at + 1 /\ at \in Nat
    BY <2>1, <2>2, <2>3 DEF FirstFlag
  <2>5. pc' = "done" => at' \notin FirstFlag(command') .. Len(words')
    BY <2>1, <2>4
  <2> QED BY <2>1, <2>5 DEF GivenUp
<1>5. CASE RefuseFlag
  <2>1. /\ pc = "flags" /\ at <= Len(words) /\ FlagProblem # "none"
        /\ pc' = "done" /\ UNCHANGED <<words, command, at>>
    BY <1>5 DEF RefuseFlag, ReadingFlag, Answer, Fail
  <2>2. command \in Catalog /\ at \in FirstFlag(command) .. Len(words) + 1
    BY <2>1 DEF Looping
  <2>3. at \in FirstFlag(command) .. Len(words)
    BY <2>1, <2>2, FirstFlagType
  <2>4. PICK places \in SUBSET (1 .. Len(words)) : Partial(places) /\ Only(places)
    BY <2>1 DEF Looping
  <2>5. Readings = {}
    BY <2>1, <2>2, <2>3, <2>4, RefusedHasNone
  <2>6. Readings' = Readings
    BY <2>1 DEF Readings, IsReading, FirstFlag
  <2> QED BY <2>1, <2>5, <2>6 DEF GivenUp
<1>6. CASE CheckFlags \/ ReadDocument
  <2>1. at > Len(words) /\ UNCHANGED <<at, words>>
    BY <1>6 DEF CheckFlags, FlagsRead, ReadDocument, GivenUp
  <2>2. Len(words) \in Nat /\ at \in Nat
    BY DEF TypeOK
  <2>3. at' \notin FirstFlag(command') .. Len(words')
    BY <2>1, <2>2
  <2> QED BY <2>1, <2>3 DEF GivenUp
<1>7. CASE UNCHANGED vars
  <2>1. UNCHANGED <<pc, at, words, command>>
    BY <1>7 DEF vars
  <2>2. Readings' = Readings
    BY <2>1 DEF Readings, IsReading, FirstFlag
  <2> QED BY <2>1, <2>2 DEF GivenUp
<1> QED BY <1>1, <1>2, <1>3, <1>4, <1>5, <1>6, <1>7 DEF Next

-----------------------------------------------------------------------------
LEMMA ReadInit == Init => ReadInv
<1> SUFFICES ASSUME Init PROVE ReadInv
  OBVIOUS
<1>1. /\ pc = "start" /\ at = 1 /\ words = <<>> /\ globals = {} /\ command = NoCommand
      /\ values = NoValues /\ many = NoValues
  BY DEF Init
<1>2. Sifted /\ Placed /\ Looping /\ GivenUp
  BY <1>1 DEF Sifted, Placed, Looping, GivenUp
<1> QED BY <1>2, TypesInit DEF ReadInv

LEMMA ReadStep == ReadInv /\ [Next]_vars => ReadInv'
  BY TypesStep, SiftedStep, PlacedStep, LoopingStep, GivenUpStep DEF ReadInv

LEMMA ReadImplies == ReadInv => ReadAsMeant
<1> SUFFICES ASSUME ReadInv PROVE ReadAsMeant
  OBVIOUS
<1>1. ASSUME FlagsRead
      PROVE  /\ \E places \in Readings : Follows(places)
             /\ Len(argv) = Len(words) + Cardinality(globals)
  <2>1. pc = "flags" /\ at > Len(words)
    BY <1>1 DEF FlagsRead
  <2>2. command \in Catalog /\ at \in FirstFlag(command) .. Len(words) + 1
    BY <2>1 DEF ReadInv, Looping
  <2>3. FirstFlag(command) \in Nat \ {0} /\ Len(words) \in Nat /\ at \in Nat
    BY <2>2, FirstFlagType DEF ReadInv
  <2>4. at - 1 = Len(words)
    BY <2>1, <2>2, <2>3
  <2>5. PICK places \in SUBSET (1 .. Len(words)) : Partial(places)
    BY <2>1 DEF ReadInv, Looping
  <2>6. /\ places \subseteq FirstFlag(command) .. Len(words)
        /\ \A i \in FirstFlag(command) .. Len(words) :
             (i \in places) <=> ~(i - 1 \in places /\ Takes(command, words[i - 1]))
        /\ \A i, j \in places : words[i] = words[j] /\ i # j => words[i] \in command.many
    BY <2>4, <2>5 DEF Partial
  <2>7. \A i \in places : Knows(command, words[i]) /\ (Takes(command, words[i]) => i < Len(words))
    <3> TAKE i \in places
    <3>1. Knows(command, words[i]) /\ (Takes(command, words[i]) => i + 1 <= at - 1)
      BY <2>5 DEF Partial
    <3>2. i \in Nat
      OBVIOUS
    <3> QED BY <2>3, <2>4, <3>1, <3>2
  <2>8. places \in Readings
    BY <2>6, <2>7 DEF Readings, IsReading
  <2>9. Follows(places)
    BY <2>5 DEF Partial
  <2>10. Len(argv) = Len(words) + Cardinality(globals)
    BY <2>1 DEF ReadInv, Sifted
  <2> QED BY <2>8, <2>9, <2>10
<1> QED BY <1>1 DEF ReadAsMeant, ReadInv, GivenUp

(* Each command line is read as its grammar says: what the loop over the   *)
(* flags takes is a reading of every word, and a line that it gives up at  *)
(* a flag has none, however long it is and whatever its words are.         *)
THEOREM LinesAreReadAsMeant == Spec => []ReadAsMeant
  BY ReadInit, ReadStep, ReadImplies, PTL DEF Spec

-----------------------------------------------------------------------------
(* What the decoders of event fields make of a value is taken for itself:  *)
(* the first half of the proof that a preview can be given back.           *)
LEMMA TrimTwice == \A w : Trim(Trim(w)) = Trim(w)
  BY WordAssumption DEF Trim

(* A decoder looks at values of one kind. *)
LEMMA KindsDiffer ==
  ASSUME NEW v, OneKind(v), NEW k \in Kinds, NEW l \in Kinds, Is(k, v), Is(l, v)
  PROVE  k = l
  BY DEF OneKind, Is
(* null has a kind of its own.                                             *)
LEMMA NullKind == Is("null", Null) /\ DOMAIN Null = {"null"}
  BY DEF Is, Null
(* The decoder of each field, and what it keeps of each kind of value.     *)
LEMMA DecodesIs ==
  ASSUME NEW v
  PROVE  /\ Decodes("title", v) = RequiredString(v)
         /\ \A f \in {"description", "location", "posterId"} : Decodes(f, v) = NullableString(v)
         /\ Decodes("start", v) = RequiredTime(v)
         /\ Decodes("end", v) = NullableTime(v)
         /\ Decodes("timezone", v) = Timezone(v)
         /\ Decodes("visibility", v) = Visibility(v)
         /\ Decodes("guestLimit", v) = NullablePositiveInteger(v)
         /\ Decodes("links", v) = NullableLinks(v)
  BY DEF Decodes
LEMMA DecodedIs ==
  ASSUME NEW v, OneKind(v)
  PROVE  /\ v = Null => Decoded(v) = Null
         /\ Is("text", v) => Decoded(v) = Text(Trim(v.text))
         /\ Is("number", v) => Decoded(v) = v
         /\ Is("sloppy", v) => Decoded(v) = Number(v.sloppy)
         /\ Is("list", v) =>
              Decoded(v) = List([i \in DOMAIN v.list |->
                                   Link(Trim(v.list[i].link[1]), Trim(v.list[i].link[2]))])
<1>1. {"null", "text", "number", "sloppy", "list"} \subseteq Kinds
  BY DEF Kinds
<1>2. ASSUME v = Null PROVE Decoded(v) = Null
  <2>1. ~Is("text", v) /\ ~Is("sloppy", v) /\ ~Is("list", v)
    BY <1>2, NullKind DEF Is
  <2> QED BY <1>2, <2>1 DEF Decoded
<1>3. ASSUME Is("text", v) PROVE Decoded(v) = Text(Trim(v.text))
  <2>1. ~Is("sloppy", v) /\ ~Is("list", v)
    BY <1>1, <1>3, KindsDiffer
  <2> QED BY <1>3, <2>1 DEF Decoded
<1>4. ASSUME Is("number", v) PROVE Decoded(v) = v
  <2>1. ~Is("text", v) /\ ~Is("sloppy", v) /\ ~Is("list", v)
    BY <1>1, <1>4, KindsDiffer
  <2> QED BY <2>1 DEF Decoded
<1>5. ASSUME Is("sloppy", v) PROVE Decoded(v) = Number(v.sloppy)
  <2>1. ~Is("text", v) /\ ~Is("list", v)
    BY <1>1, <1>5, KindsDiffer
  <2> QED BY <1>5, <2>1 DEF Decoded
<1>6. ASSUME Is("list", v)
      PROVE  Decoded(v) = List([i \in DOMAIN v.list |->
                                   Link(Trim(v.list[i].link[1]), Trim(v.list[i].link[2]))])
  <2>1. ~Is("text", v) /\ ~Is("sloppy", v)
    BY <1>1, <1>6, KindsDiffer
  <2> QED BY <1>6, <2>1 DEF Decoded
<1> QED BY <1>2, <1>3, <1>4, <1>5, <1>6

(* What the decoder of a field makes of a value: nothing, or a value that  *)
(* has been trimmed.                                                       *)
Cleared == {"description", "location", "posterId", "end", "guestLimit", "links"}
Words == {"title", "description", "location", "posterId", "start", "end", "timezone", "visibility"}
GoodWord(f, w) ==
  /\ Trim(w) = w
  /\ w # ""
  /\ f \in {"start", "end"} => w \in DOMAIN Times
  /\ f = "timezone" => w \in Zones
  /\ f = "visibility" => w \in {"private", "public"}
GoodLink(x) ==
  \E label, url : /\ x = Link(label, url) /\ Trim(label) = label /\ label # ""
                  /\ Trim(url) = url /\ url \in Urls
Good(f, d) ==
  \/ f \in Cleared /\ d = Null
  \/ f \in Words /\ \E w : d = Text(w) /\ GoodWord(f, w)
  \/ f = "guestLimit" /\ \E n : d = Number(n) /\ n >= 1
  \/ f = "links" /\ \E s : /\ d = List(s) /\ s = [i \in DOMAIN s |-> s[i]]
                           /\ \A i \in DOMAIN s : GoodLink(s[i])

(* The fields by the decoders they need.                                   *)
LEMMA CreateFieldsAre == CreateFields = Words \cup {"guestLimit", "links"}
  BY DEF CreateFields, CreateOrder, Words
LEMMA UpdateFieldsAre == UpdateFields = {"title", "description", "start", "end", "timezone", "guestLimit",
                                        "links", "posterId"}
  BY DEF UpdateFields, UpdateOrder

LEMMA EmptyWord == Trim("") = "" /\ "" \notin DOMAIN Times /\ "" \notin Zones
  BY WordAssumption DEF Trim

(* A value that a decoder takes is turned into a good one.                 *)
LEMMA DecodedWord ==
  ASSUME NEW f \in Words, NEW v, OneKind(v), Decodes(f, v), v # Null
  PROVE  /\ Is("text", v) /\ Decoded(v) = Text(Trim(v.text)) /\ GoodWord(f, Trim(v.text))
<1>1. /\ f = "title" => RequiredString(v)
      /\ f \in {"description", "location", "posterId"} => NullableString(v)
      /\ f = "start" => RequiredTime(v)
      /\ f = "end" => NullableTime(v)
      /\ f = "timezone" => Timezone(v)
      /\ f = "visibility" => Visibility(v)
  BY DecodesIs
<1>2. IsText(v)
  BY <1>1 DEF RequiredString, NullableString, RequiredTime, NullableTime, Timezone, Visibility, Words
<1>3. Is("text", v) /\ TextOf(v) = v.text
  BY <1>2 DEF IsText, TextOf
<1>4. Decoded(v) = Text(Trim(v.text))
  BY <1>3, DecodedIs
<1> DEFINE w == Trim(v.text)
<1>5. /\ f \in {"title", "description", "location", "posterId"} => w # ""
      /\ f \in {"start", "end"} => w \in DOMAIN Times
      /\ f = "timezone" => w \in Zones
      /\ f = "visibility" => w \in {"private", "public"}
  BY <1>1, <1>3 DEF RequiredString, NullableString, RequiredTime, NullableTime, Timezone, Visibility
<1>6. Trim(w) = w
  BY TrimTwice
<1>7. GoodWord(f, w)
  <2> HIDE DEF w
  <2> QED BY <1>5, <1>6, EmptyWord DEF GoodWord, Words
<1> QED BY <1>3, <1>4, <1>7

LEMMA DecodedGood ==
  ASSUME NEW f \in CreateFields, NEW v, OneKind(v), Decodes(f, v)
  PROVE  Good(f, Decoded(v))
<1>1. CASE v = Null
  <2>1. Decoded(v) = Null
    BY <1>1, DecodedIs
  <2>2. f \in Cleared
    <3>1. Is("text", v) => FALSE
      BY <1>1 DEF Null, Is
    <3>2. IsText(v) /\ TextOf(v) = ""
      BY <1>1 DEF IsText, TextOf
    <3>3. ~RequiredString(v) /\ ~RequiredTime(v) /\ ~Timezone(v) /\ ~Visibility(v)
      BY <3>2, EmptyWord DEF RequiredString, RequiredTime, Timezone, Visibility
    <3>4. f \in {"title", "start", "timezone", "visibility"} => FALSE
      BY <3>3, DecodesIs
    <3> QED BY <3>4, CreateFieldsAre DEF Cleared, Words
  <2> QED BY <2>1, <2>2 DEF Good
<1>2. CASE v # Null /\ f \in Words
  BY <1>2, DecodedWord DEF Good
<1>3. CASE v # Null /\ f = "guestLimit"
  <2>1. NullablePositiveInteger(v)
    BY <1>3, DecodesIs
  <2>2. CASE Is("number", v) /\ v.number >= 1
    <3>1. v = [k \in {"number"} |-> v["number"]]
      BY <2>2 DEF OneKind, Is
    <3>2. v = Number(v.number)
      BY <3>1 DEF Number
    <3> QED BY <1>3, <2>2, <3>2, DecodedIs DEF Good
  <2>3. CASE Is("sloppy", v) /\ v.sloppy >= 1
    BY <1>3, <2>3, DecodedIs DEF Good
  <2> QED BY <1>3, <2>1, <2>2, <2>3 DEF NullablePositiveInteger
<1>4. CASE v # Null /\ f = "links"
  <2>1. NullableLinks(v)
    BY <1>4, DecodesIs
  <2>2. Is("list", v) /\ \A i \in DOMAIN v.list : LinkEntry(v.list[i])
    BY <1>4, <2>1 DEF NullableLinks
  <2> DEFINE s == [i \in DOMAIN v.list |->
                     Link(Trim(v.list[i].link[1]), Trim(v.list[i].link[2]))]
  <2>3. Decoded(v) = List(s)
    BY <2>2, DecodedIs
  <2>4. \A i \in DOMAIN v.list : GoodLink(s[i])
    BY <2>2, TrimTwice DEF LinkEntry, GoodLink
  <2>5. s = [i \in DOMAIN s |-> s[i]] /\ DOMAIN s = DOMAIN v.list
    OBVIOUS
  <2> HIDE DEF s
  <2> QED BY <1>4, <2>3, <2>4, <2>5 DEF Good
<1> QED BY <1>1, <1>2, <1>3, <1>4, CreateFieldsAre

(* Values of different kinds are different.                                *)
LEMMA ShapesDiffer ==
  /\ OneKind(Null)
  /\ \A w : OneKind(Text(w)) /\ Is("text", Text(w)) /\ Text(w).text = w
            /\ Text(w) # Null /\ Text(w) # List(<<>>)
  /\ \A n : OneKind(Number(n)) /\ Is("number", Number(n)) /\ Number(n).number = n
            /\ Number(n) # Null /\ Number(n) # List(<<>>)
  /\ \A s : OneKind(List(s)) /\ Is("list", List(s)) /\ List(s).list = s /\ List(s) # Null
  /\ \A l, u : Is("link", Link(l, u)) /\ Link(l, u).link[1] = l /\ Link(l, u).link[2] = u
<1>1. OneKind(Null)
  BY DEF OneKind, Is, Null, Kinds
<1>2. \A w : OneKind(Text(w)) /\ Is("text", Text(w)) /\ Text(w).text = w
             /\ Text(w) # Null /\ Text(w) # List(<<>>)
  BY DEF OneKind, Is, Null, Text, List, Kinds
<1>3. \A n : OneKind(Number(n)) /\ Is("number", Number(n)) /\ Number(n).number = n
             /\ Number(n) # Null /\ Number(n) # List(<<>>)
  BY DEF OneKind, Is, Null, Number, List, Kinds
<1>4. \A s : OneKind(List(s)) /\ Is("list", List(s)) /\ List(s).list = s /\ List(s) # Null
  BY DEF OneKind, Is, Null, List, Kinds
<1>5. \A l, u : Is("link", Link(l, u)) /\ Link(l, u).link[1] = l /\ Link(l, u).link[2] = u
  BY DEF Is, Link
<1> QED BY <1>1, <1>2, <1>3, <1>4, <1>5

LEMMA GoodLinks ==
  ASSUME NEW x, GoodLink(x)
  PROVE  /\ Is("link", x) /\ x.link[1] # "" /\ x.link[2] \in Urls
         /\ Trim(x.link[1]) = x.link[1] /\ Trim(x.link[2]) = x.link[2]
         /\ x = Link(x.link[1], x.link[2])
<1>1. PICK label, url : /\ x = Link(label, url) /\ Trim(label) = label /\ label # ""
                        /\ Trim(url) = url /\ url \in Urls
  BY DEF GoodLink
<1>2. Is("link", x) /\ x.link[1] = label /\ x.link[2] = url
  BY <1>1 DEF Is, Link
<1> QED BY <1>1, <1>2

(* What a decoder has made is taken for itself. *)
LEMMA GoodAgain ==
  ASSUME NEW f \in CreateFields, NEW d, Good(f, d)
  PROVE  Decodes(f, d) /\ OneKind(d) /\ Decoded(d) = d
<1>1. CASE f \in Cleared /\ d = Null
  <2>1. NullableString(d) /\ NullableTime(d) /\ NullablePositiveInteger(d) /\ NullableLinks(d)
    BY <1>1 DEF NullableString, NullableTime, NullablePositiveInteger, NullableLinks
  <2>2. Decodes(f, d)
    BY <1>1, <2>1, DecodesIs DEF Cleared
  <2> QED BY <1>1, <2>2, ShapesDiffer, DecodedIs
<1>2. CASE f \in Words /\ \E w : d = Text(w) /\ GoodWord(f, w)
  <2>1. PICK w : d = Text(w) /\ GoodWord(f, w)
    BY <1>2
  <2>2. Is("text", d) /\ d.text = w /\ d # Null /\ OneKind(d)
    BY <2>1, ShapesDiffer
  <2>3. IsText(d) /\ TextOf(d) = w
    BY <2>2 DEF IsText, TextOf
  <2>4. Trim(w) = w
    BY <2>1 DEF GoodWord
  <2>5. Decoded(d) = d
    BY <2>1, <2>2, <2>4, DecodedIs
  <2>6. /\ w # ""
        /\ f \in {"start", "end"} => w \in DOMAIN Times
        /\ f = "timezone" => w \in Zones
        /\ f = "visibility" => w \in {"private", "public"}
    BY <2>1 DEF GoodWord
  <2>7. /\ f \in {"title", "description", "location", "posterId"} => RequiredString(d) /\ NullableString(d)
        /\ f \in {"start", "end"} => RequiredTime(d) /\ NullableTime(d)
        /\ f = "timezone" => Timezone(d)
        /\ f = "visibility" => Visibility(d)
    BY <2>3, <2>4, <2>6 DEF RequiredString, NullableString, RequiredTime, NullableTime, Timezone, Visibility
  <2>8. Decodes(f, d)
    BY <1>2, <2>7, DecodesIs DEF Words
  <2> QED BY <2>2, <2>5, <2>8
<1>3. CASE f = "guestLimit" /\ \E n : d = Number(n) /\ n >= 1
  <2>1. PICK n : d = Number(n) /\ n >= 1
    BY <1>3
  <2>2. Is("number", d) /\ d.number = n /\ OneKind(d)
    BY <2>1, ShapesDiffer
  <2>3. NullablePositiveInteger(d)
    BY <2>1, <2>2 DEF NullablePositiveInteger
  <2> QED BY <1>3, <2>2, <2>3, DecodesIs, DecodedIs
<1>4. CASE f = "links" /\ \E s : /\ d = List(s) /\ s = [i \in DOMAIN s |-> s[i]]
                                 /\ \A i \in DOMAIN s : GoodLink(s[i])
  <2>1. PICK s : /\ d = List(s) /\ s = [i \in DOMAIN s |-> s[i]]
                 /\ \A i \in DOMAIN s : GoodLink(s[i])
    BY <1>4
  <2>2. Is("list", d) /\ d.list = s /\ OneKind(d)
    BY <2>1, ShapesDiffer
  <2>3. \A i \in DOMAIN s : LinkEntry(s[i]) /\ Link(Trim(s[i].link[1]), Trim(s[i].link[2])) = s[i]
    BY <2>1, GoodLinks DEF LinkEntry
  <2>4. NullableLinks(d)
    BY <2>2, <2>3 DEF NullableLinks
  <2>5. [i \in DOMAIN s |-> Link(Trim(s[i].link[1]), Trim(s[i].link[2]))] = [i \in DOMAIN s |-> s[i]]
    BY <2>3
  <2>6. Decoded(d) = List([i \in DOMAIN s |-> Link(Trim(s[i].link[1]), Trim(s[i].link[2]))])
    BY <2>2, DecodedIs
  <2>7. Decoded(d) = d
    BY <2>1, <2>5, <2>6
  <2> QED BY <1>4, <2>2, <2>4, <2>7, DecodesIs
<1> QED BY <1>1, <1>2, <1>3, <1>4 DEF Good

(* The types that the schemas name for text.                               *)
LEMMA SchemaWords ==
  /\ CreateSchema["title"] = {"nonempty"} /\ CreateSchema["timezone"] = {"nonempty"}
  /\ CreateSchema["start"] = {"date-time"} /\ CreateSchema["visibility"] = {"private", "public"}
  /\ "date-time" \in CreateSchema["end"]
  /\ \A f \in {"description", "location", "posterId"} : "string" \in CreateSchema[f]
  /\ \A f \in {"title", "description", "timezone", "posterId"} : "string" \in UpdateSchema[f]
  /\ \A f \in {"start", "end"} : "date-time" \in UpdateSchema[f]
  BY DEF CreateSchema, UpdateSchema

(* It is also of the type that the schemas name.                           *)
LEMMA GoodConforms ==
  ASSUME NEW f \in CreateFields, NEW d, Good(f, d)
  PROVE  /\ \E type \in CreateSchema[f] \cup {"null"} : Conforms(type, d)
         /\ f \in UpdateFields => \E type \in UpdateSchema[f] : Conforms(type, d)
<1>1. CASE f \in Cleared /\ d = Null
  <2>1. Conforms("null", d)
    BY <1>1 DEF Conforms
  <2>2. f \in UpdateFields => "null" \in UpdateSchema[f]
    BY <1>1, UpdateFieldsAre DEF Cleared, UpdateSchema
  <2> QED BY <2>1, <2>2
<1>2. CASE f \in Words /\ \E w : d = Text(w) /\ GoodWord(f, w)
  <2>1. PICK w : d = Text(w) /\ GoodWord(f, w)
    BY <1>2
  <2>2. Is("text", d) /\ d.text = w
    BY <2>1, ShapesDiffer
  <2>3. /\ Conforms("string", d)
        /\ w # "" => Conforms("nonempty", d)
        /\ w \in DOMAIN Times => Conforms("date-time", d)
        /\ w = "private" => Conforms("private", d)
        /\ w = "public" => Conforms("public", d)
    BY <2>2 DEF Conforms
  <2>4. /\ w # ""
        /\ f \in {"start", "end"} => w \in DOMAIN Times
        /\ f = "visibility" => w \in {"private", "public"}
    BY <2>1 DEF GoodWord
  <2>5. \E type \in CreateSchema[f] : Conforms(type, d)
    <3>1. CASE f \in {"title", "timezone"}
      BY <2>3, <2>4, <3>1, SchemaWords
    <3>2. CASE f \in {"start", "end"}
      BY <2>3, <2>4, <3>2, SchemaWords
    <3>3. CASE f = "visibility"
      BY <2>3, <2>4, <3>3, SchemaWords
    <3>4. CASE f \in {"description", "location", "posterId"}
      BY <2>3, <3>4, SchemaWords
    <3> QED BY <1>2, <3>1, <3>2, <3>3, <3>4 DEF Words
  <2>6. f \in UpdateFields => \E type \in UpdateSchema[f] : Conforms(type, d)
    <3>1. CASE f \in {"title", "description", "timezone", "posterId"}
      BY <2>3, <3>1, SchemaWords
    <3>2. CASE f \in {"start", "end"}
      BY <2>3, <2>4, <3>2, SchemaWords
    <3> QED BY <1>2, <3>1, <3>2, UpdateFieldsAre DEF Words
  <2> QED BY <2>5, <2>6
<1>3. CASE f = "guestLimit" /\ \E n : d = Number(n) /\ n >= 1
  <2>1. Conforms("integer", d)
    BY <1>3, ShapesDiffer DEF Conforms
  <2> QED BY <1>3, <2>1 DEF CreateSchema, UpdateSchema
<1>4. CASE f = "links" /\ \E s : /\ d = List(s) /\ s = [i \in DOMAIN s |-> s[i]]
                                 /\ \A i \in DOMAIN s : GoodLink(s[i])
  <2>1. PICK s : d = List(s) /\ \A i \in DOMAIN s : GoodLink(s[i])
    BY <1>4
  <2>2. Is("list", d) /\ d.list = s
    BY <2>1, ShapesDiffer
  <2>3. \A i \in DOMAIN s : /\ Is("link", s[i]) /\ s[i].link[1] # "" /\ s[i].link[2] \in Urls
    BY <2>1, GoodLinks
  <2>4. Conforms("links", d)
    BY <2>2, <2>3 DEF Conforms
  <2> QED BY <1>4, <2>4 DEF CreateSchema, UpdateSchema
<1> QED BY <1>1, <1>2, <1>3, <1>4 DEF Good

-----------------------------------------------------------------------------
(* The first of some checks that fail exists.                              *)
LEMMA LeastIndex ==
  ASSUME NEW S \in SUBSET (1 .. 10), S # {}
  PROVE  \E i \in S : \A j \in 1 .. i - 1 : j \notin S
<1>1. IsWellFoundedOn({ss \in Nat \X Nat : ss[1] < ss[2]}, Nat)
  BY NatLessThanWellFounded DEF OpToRel
<1>2. S \in SUBSET Nat
  OBVIOUS
<1>3. \E x \in S : \A y \in S : ~(<<y, x>> \in {ss \in Nat \X Nat : ss[1] < ss[2]})
  BY <1>1, <1>2, WFMin
<1>4. PICK m \in S : \A k \in S : ~(k < m)
  BY <1>2, <1>3
<1> QED BY <1>4

-----------------------------------------------------------------------------
(* A create: which checks fail, what is made of a document that passes all *)
(* of them, and which two of its fields contradict each other.             *)
CreateFails(doc, f) ==
  IF Given(doc, f) THEN ~Decodes(f, doc[f]) ELSE f \in {"title", "start", "timezone"}
CreateInput(doc) ==
  [f \in CreateFields |->
     IF Given(doc, f) /\ doc[f] # Null THEN Decoded(doc[f]) ELSE Default(f)]
Backwards(doc) ==
  Given(doc, "end") /\ doc["end"] # Null /\ InstantOf(doc["end"]) < InstantOf(doc["start"])

FirstCreate(doc) == FirstOf(CreateOrder, LAMBDA f : CreateFails(doc, f))

LEMMA CreateOrderIs == DOMAIN CreateOrder = 1 .. 10 /\ \A i \in 1 .. 10 : CreateOrder[i] # "none"
  BY DEF CreateOrder

LEMMA CreateIs ==
  ASSUME NEW doc
  PROVE  NormalizeCreate(doc) =
           IF \E f \in DOMAIN doc : f \notin CreateFields THEN Unknown
           ELSE IF FirstCreate(doc) # None THEN Refused(FirstCreate(doc))
           ELSE IF Backwards(doc) THEN [code |-> "EVENT_RANGE_INVALID"]
           ELSE Taken(CreateInput(doc))
  BY DEF NormalizeCreate, CreateFails, CreateInput, Backwards, FirstOf, FirstCreate

LEMMA CreateFirst ==
  ASSUME NEW doc
  PROVE  (FirstCreate(doc) = None)
           <=> \A f \in CreateFields : ~CreateFails(doc, f)
<1>1. ASSUME NEW f \in CreateFields, CreateFails(doc, f)
      PROVE  FirstCreate(doc) # None
  <2>1. PICK i \in 1 .. 10 : CreateFails(doc, CreateOrder[i])
    BY <1>1, CreateOrderIs DEF CreateFields
  <2> DEFINE S == {j \in 1 .. 10 : CreateFails(doc, CreateOrder[j])}
  <2>2. S \in SUBSET (1 .. 10) /\ S # {}
    BY <2>1
  <2>3. PICK k \in S : \A j \in 1 .. k - 1 : j \notin S
    BY <2>2, LeastIndex
  <2>4. k \in 1 .. 10 /\ CreateFails(doc, CreateOrder[k])
        /\ \A j \in 1 .. k - 1 : ~CreateFails(doc, CreateOrder[j])
    BY <2>3
  <2> QED BY <2>4, CreateOrderIs DEF FirstCreate, FirstOf, None
<1>2. ASSUME \A f \in CreateFields : ~CreateFails(doc, f)
      PROVE  FirstCreate(doc) = None
  <2>1. \A i \in DOMAIN CreateOrder : ~CreateFails(doc, CreateOrder[i])
    BY <1>2 DEF CreateFields
  <2> QED BY <2>1 DEF FirstCreate, FirstOf
<1> QED BY <1>1, <1>2

(* A document is taken if and only if it passes the checks.                *)
LEMMA CreateTaken ==
  ASSUME NEW doc, NormalizeCreate(doc).code = "OK"
  PROVE  /\ DOMAIN doc \subseteq CreateFields
         /\ \A f \in CreateFields : ~CreateFails(doc, f)
         /\ ~Backwards(doc)
         /\ NormalizeCreate(doc) = Taken(CreateInput(doc))
<1>2. (FirstCreate(doc) = None) <=> \A f \in CreateFields : ~CreateFails(doc, f)
  BY CreateFirst
<1>3. Unknown.code # "OK" /\ Refused(FirstCreate(doc)).code # "OK"
  BY DEF Unknown, Refused
<1>4. ~(\E f \in DOMAIN doc : f \notin CreateFields) /\ FirstCreate(doc) = None /\ ~Backwards(doc)
  BY CreateIs, <1>3
<1> QED BY CreateIs, <1>2, <1>4

LEMMA CreateTakes ==
  ASSUME NEW doc, DOMAIN doc \subseteq CreateFields, \A f \in CreateFields : ~CreateFails(doc, f),
         ~Backwards(doc)
  PROVE  NormalizeCreate(doc) = Taken(CreateInput(doc))
  BY CreateIs, CreateFirst

(* Each field of the input is as its decoder leaves it, or a default.      *)
LEMMA CreateGood ==
  ASSUME NEW doc, IsDocument(doc), \A f \in CreateFields : ~CreateFails(doc, f)
  PROVE  /\ \A f \in CreateFields : Good(f, CreateInput(doc)[f])
         /\ \A f \in {"title", "start", "timezone", "visibility", "posterId"} :
              CreateInput(doc)[f] # Null
<1>1. ASSUME NEW f \in CreateFields, Given(doc, f), doc[f] # Null
      PROVE  CreateInput(doc)[f] = Decoded(doc[f]) /\ Good(f, CreateInput(doc)[f])
             /\ (f \in Words => CreateInput(doc)[f] # Null)
  <2>1. CreateInput(doc)[f] = Decoded(doc[f])
    BY <1>1 DEF CreateInput
  <2>2. Decodes(f, doc[f]) /\ OneKind(doc[f])
    BY <1>1 DEF CreateFails, IsDocument, Given
  <2>3. f \in Words => Decoded(doc[f]) # Null
    BY <1>1, <2>2, DecodedWord, ShapesDiffer
  <2> QED BY <2>1, <2>2, <2>3, DecodedGood
<1>2. ASSUME NEW f \in CreateFields, ~(Given(doc, f) /\ doc[f] # Null)
      PROVE  CreateInput(doc)[f] = Default(f) /\ f \notin {"title", "start", "timezone"}
  <2>1. f \in {"title", "start", "timezone"} => Given(doc, f) /\ Decodes(f, doc[f])
    BY DEF CreateFails
  <2>2. ~(f \in {"title", "start", "timezone"} /\ Good(f, Null))
    BY ShapesDiffer DEF Good, Cleared
  <2>3. Given(doc, f) => doc[f] = Null
    BY <1>2
  <2>4. f \in {"title", "start", "timezone"} => Good(f, Null)
    <3>1. Decoded(Null) = Null /\ OneKind(Null)
      BY ShapesDiffer, DecodedIs
    <3> QED BY <2>1, <2>3, <3>1, DecodedGood
  <2> QED BY <1>2, <2>2, <2>4 DEF CreateInput
<1>3. /\ Default("visibility") = Text("private") /\ Default("posterId") = Text("Let's Party")
      /\ \A f \in CreateFields \ {"visibility", "posterId"} : Default(f) = Null
  BY DEF Default
<1>4. GoodWord("visibility", "private") /\ GoodWord("posterId", "Let's Party")
  BY WordAssumption DEF GoodWord, Trim
<1>5. Good("visibility", Default("visibility")) /\ Good("posterId", Default("posterId"))
  BY <1>3, <1>4 DEF Good, Words
<1>6. ASSUME NEW f \in CreateFields, f \notin {"title", "start", "timezone"} PROVE Good(f, Default(f))
  BY <1>3, <1>5, <1>6, CreateFieldsAre DEF Good, Cleared, Words
<1>7. Default("visibility") # Null /\ Default("posterId") # Null
  BY <1>3, ShapesDiffer
<1>8. \A f \in CreateFields : Good(f, CreateInput(doc)[f])
  BY <1>1, <1>2, <1>6
<1>9. ASSUME NEW f \in {"title", "start", "timezone", "visibility", "posterId"}
      PROVE  CreateInput(doc)[f] # Null
  <2>1. f \in CreateFields /\ f \in Words
    BY CreateFieldsAre DEF Words
  <2> QED BY <1>1, <1>2, <1>7, <2>1
<1> QED BY <1>8, <1>9

(* The preview of a create, given back as --input. *)
LEMMA CreateAgain ==
  ASSUME NEW doc, IsDocument(doc), NormalizeCreate(doc).code = "OK"
  PROVE  LET given == CreateInput(doc) IN
         /\ NormalizeCreate(PublicCreate(given)) = Taken([f \in CreateFields |-> LinksOrNull(given[f])])
         /\ Fits(PublicCreate(given), {"title", "start", "timezone"}, CreateSchema)
<1> DEFINE given == CreateInput(doc)
           shown == PublicCreate(given)
<1>1. /\ \A f \in CreateFields : ~CreateFails(doc, f)
      /\ ~Backwards(doc)
  BY CreateTaken
<1>2. /\ \A f \in CreateFields : Good(f, given[f])
      /\ \A f \in {"title", "start", "timezone", "visibility", "posterId"} : given[f] # Null
  BY <1>1, CreateGood
<1>3. DOMAIN given = CreateFields
  BY DEF CreateInput
<1>4. /\ DOMAIN shown = {f \in CreateFields : given[f] # Null /\ given[f] # List(<<>>)}
      /\ \A f \in DOMAIN shown : shown[f] = given[f]
  BY DEF PublicCreate
<1>5. \A f \in {"title", "start", "timezone", "visibility", "posterId"} : f \in DOMAIN shown
  <2> TAKE f \in {"title", "start", "timezone", "visibility", "posterId"}
  <2>1. f \in CreateFields /\ f # "links" /\ f # "guestLimit"
    BY CreateFieldsAre DEF Words
  <2>2. given[f] # List(<<>>)
    BY <1>2, <2>1, ShapesDiffer DEF Good
  <2> QED BY <1>2, <1>4, <2>1, <2>2
<1>6. \A f \in DOMAIN shown : Decodes(f, shown[f]) /\ OneKind(shown[f]) /\ Decoded(shown[f]) = shown[f]
  BY <1>2, <1>4, GoodAgain
<1>7. \A f \in CreateFields : ~CreateFails(shown, f)
  BY <1>5, <1>6 DEF CreateFails, Given
<1>8. ~Backwards(shown)
  <2> SUFFICES ASSUME Backwards(shown) PROVE FALSE
    OBVIOUS
  <2>1. "end" \in DOMAIN shown /\ shown["end"] # Null /\ InstantOf(shown["end"]) < InstantOf(shown["start"])
    BY DEF Backwards, Given
  <2>2. shown["end"] = given["end"] /\ shown["start"] = given["start"] /\ {"end", "start"} \subseteq CreateFields
    BY <1>4, <1>5, <2>1, CreateFieldsAre DEF Words
  <2>3. ASSUME NEW f \in {"start", "end"}, given[f] # Null
        PROVE  Given(doc, f) /\ doc[f] # Null /\ InstantOf(given[f]) = InstantOf(doc[f])
    <3>1. Given(doc, f) /\ doc[f] # Null
      BY <2>2, <2>3 DEF CreateInput, Default
    <3>2. Decodes(f, doc[f]) /\ OneKind(doc[f]) /\ f \in Words
      BY <1>1, <2>2, <3>1 DEF CreateFails, IsDocument, Given, Words
    <3>3. Is("text", doc[f]) /\ Decoded(doc[f]) = Text(Trim(doc[f].text))
      BY <3>1, <3>2, DecodedWord
    <3>4. given[f] = Text(Trim(doc[f].text))
      BY <2>2, <3>1, <3>3 DEF CreateInput
    <3>5. TextOf(given[f]) = Trim(doc[f].text) /\ TextOf(doc[f]) = doc[f].text
      BY <3>1, <3>4, ShapesDiffer DEF TextOf
    <3> QED BY <3>1, <3>5, TrimTwice DEF InstantOf
  <2>4. Backwards(doc)
    BY <1>2, <2>1, <2>2, <2>3 DEF Backwards
  <2> QED BY <1>1, <2>4
<1>9. CreateInput(shown) = [f \in CreateFields |-> LinksOrNull(given[f])]
  <2>1. ASSUME NEW f \in CreateFields
        PROVE  (IF Given(shown, f) /\ shown[f] # Null THEN Decoded(shown[f]) ELSE Default(f))
                  = LinksOrNull(given[f])
    <3>1. CASE Given(shown, f) /\ shown[f] # Null
      <4>1. Decoded(shown[f]) = given[f] /\ given[f] # List(<<>>)
        BY <1>4, <1>6, <3>1 DEF Given
      <4> QED BY <3>1, <4>1 DEF LinksOrNull
    <3>2. CASE ~(Given(shown, f) /\ shown[f] # Null)
      <4>1. given[f] = Null \/ given[f] = List(<<>>)
        BY <1>4, <3>2 DEF Given
      <4>2. f \notin {"visibility", "posterId"}
        BY <1>2, <1>4, <1>5, <3>2 DEF Given
      <4>3. Default(f) = Null
        BY <4>2 DEF Default
      <4> QED BY <3>2, <4>1, <4>3 DEF LinksOrNull
    <3> QED BY <3>1, <3>2
  <2> HIDE DEF given, shown
  <2> QED BY <2>1 DEF CreateInput
<1>10. NormalizeCreate(shown) = Taken(CreateInput(shown))
  <2>1. DOMAIN shown \subseteq CreateFields
    BY <1>4
  <2> HIDE DEF shown
  <2> QED BY <1>7, <1>8, <2>1, CreateTakes
<1>11. Fits(shown, {"title", "start", "timezone"}, CreateSchema)
  <2>1. DOMAIN CreateSchema = CreateFields
    BY CreateFieldsAre DEF CreateSchema, Words
  <2>2. ASSUME NEW f \in DOMAIN shown PROVE \E type \in CreateSchema[f] : Conforms(type, shown[f])
    <3>1. f \in CreateFields /\ Good(f, shown[f]) /\ shown[f] # Null
      BY <1>2, <1>4
    <3>2. ~Conforms("null", shown[f])
      BY <3>1 DEF Conforms
    <3> QED BY <3>1, <3>2, GoodConforms
  <2>3. {"title", "start", "timezone"} \subseteq DOMAIN shown /\ DOMAIN shown \subseteq CreateFields
    BY <1>4, <1>5
  <2> HIDE DEF shown
  <2> QED BY <2>1, <2>2, <2>3 DEF Fits
<1> QED BY <1>9, <1>10, <1>11

-----------------------------------------------------------------------------
(* An update, in the same steps.                                           *)
UpdateFails(doc, f) == Given(doc, f) /\ ~Decodes(f, doc[f])
UpdateInput(doc) == [f \in DOMAIN doc |-> Decoded(doc[f])]

FirstUpdate(doc) == FirstOf(UpdateOrder, LAMBDA f : UpdateFails(doc, f))

LEMMA UpdateOrderIs == DOMAIN UpdateOrder = 1 .. 8 /\ \A i \in 1 .. 8 : UpdateOrder[i] # "none"
  BY DEF UpdateOrder

LEMMA UpdateIs ==
  ASSUME NEW doc
  PROVE  NormalizeUpdate(doc) =
           IF \E f \in DOMAIN doc : f \notin UpdateFields THEN Unknown
           ELSE IF FirstUpdate(doc) # None THEN Refused(FirstUpdate(doc))
           ELSE IF DOMAIN doc = {} THEN [code |-> "UPDATE_FIELD_REQUIRED"]
           ELSE Taken(UpdateInput(doc))
  BY DEF NormalizeUpdate, UpdateFails, UpdateInput, FirstOf, FirstUpdate

LEMMA UpdateFirst ==
  ASSUME NEW doc
  PROVE  (FirstUpdate(doc) = None)
           <=> \A f \in UpdateFields : ~UpdateFails(doc, f)
<1>1. ASSUME NEW f \in UpdateFields, UpdateFails(doc, f)
      PROVE  FirstUpdate(doc) # None
  <2>1. PICK i \in 1 .. 8 : UpdateFails(doc, UpdateOrder[i])
    BY <1>1, UpdateOrderIs DEF UpdateFields
  <2> DEFINE S == {j \in 1 .. 8 : UpdateFails(doc, UpdateOrder[j])}
  <2>2. S \in SUBSET (1 .. 10) /\ S # {}
    BY <2>1
  <2>3. PICK k \in S : \A j \in 1 .. k - 1 : j \notin S
    BY <2>2, LeastIndex
  <2>4. k \in 1 .. 8 /\ UpdateFails(doc, UpdateOrder[k])
        /\ \A j \in 1 .. k - 1 : ~UpdateFails(doc, UpdateOrder[j])
    BY <2>3
  <2> QED BY <2>4, UpdateOrderIs DEF FirstUpdate, FirstOf, None
<1>2. ASSUME \A f \in UpdateFields : ~UpdateFails(doc, f)
      PROVE  FirstUpdate(doc) = None
  <2>1. \A i \in DOMAIN UpdateOrder : ~UpdateFails(doc, UpdateOrder[i])
    BY <1>2 DEF UpdateFields
  <2> QED BY <2>1 DEF FirstUpdate, FirstOf
<1> QED BY <1>1, <1>2

(* A document is taken if and only if it passes the checks.                *)
LEMMA UpdateTaken ==
  ASSUME NEW doc
  PROVE  /\ NormalizeUpdate(doc).code = "OK" =>
              /\ DOMAIN doc \subseteq UpdateFields /\ DOMAIN doc # {}
              /\ \A f \in UpdateFields : ~UpdateFails(doc, f)
         /\ /\ DOMAIN doc \subseteq UpdateFields /\ DOMAIN doc # {}
            /\ \A f \in UpdateFields : ~UpdateFails(doc, f)
            => NormalizeUpdate(doc) = Taken(UpdateInput(doc))
<1>2. (FirstUpdate(doc) = None) <=> \A f \in UpdateFields : ~UpdateFails(doc, f)
  BY UpdateFirst
<1>3. Unknown.code # "OK" /\ Refused(FirstUpdate(doc)).code # "OK"
  BY DEF Unknown, Refused
<1>4. ASSUME NormalizeUpdate(doc).code = "OK"
      PROVE  ~(\E f \in DOMAIN doc : f \notin UpdateFields) /\ FirstUpdate(doc) = None /\ DOMAIN doc # {}
  BY UpdateIs, <1>3, <1>4
<1>5. ASSUME DOMAIN doc \subseteq UpdateFields, DOMAIN doc # {},
             \A f \in UpdateFields : ~UpdateFails(doc, f)
      PROVE  NormalizeUpdate(doc) = Taken(UpdateInput(doc))
  BY UpdateIs, <1>2, <1>5
<1> QED BY <1>2, <1>4, <1>5

(* The preview of an update, given back as --input.                        *)
LEMMA UpdateAgain ==
  ASSUME NEW doc, IsDocument(doc), NormalizeUpdate(doc).code = "OK"
  PROVE  LET given == UpdateInput(doc) IN
         /\ NormalizeUpdate(PublicUpdate(given)) = Taken([f \in DOMAIN given |-> LinksOrNull(given[f])])
         /\ Fits(PublicUpdate(given), {}, UpdateSchema)
<1> DEFINE given == UpdateInput(doc)
           shown == PublicUpdate(given)
<1>1. /\ DOMAIN doc \subseteq UpdateFields /\ DOMAIN doc # {}
      /\ \A f \in UpdateFields : ~UpdateFails(doc, f)
  BY UpdateTaken
<1>2. DOMAIN given = DOMAIN doc /\ DOMAIN shown = DOMAIN doc
  BY DEF UpdateInput, PublicUpdate
<1>3. \A f \in DOMAIN doc : given[f] = Decoded(doc[f]) /\ shown[f] = LinksOrNull(given[f])
  BY DEF UpdateInput, PublicUpdate, LinksOrNull
<1>4. UpdateFields \subseteq CreateFields
  BY UpdateFieldsAre, CreateFieldsAre DEF Words
<1>5. \A f \in DOMAIN doc : Good(f, given[f])
  BY <1>1, <1>3, <1>4, DecodedGood DEF UpdateFails, Given, IsDocument
<1>6. ASSUME NEW f \in DOMAIN doc PROVE Good(f, shown[f])
  <2>1. CASE given[f] = List(<<>>)
    <3>1. given[f] # Null
      BY <2>1, ShapesDiffer
    <3>2. f = "links"
      BY <1>5, <2>1, <3>1, ShapesDiffer DEF Good
    <3>3. shown[f] = Null
      BY <1>3, <2>1 DEF LinksOrNull
    <3> QED BY <3>2, <3>3 DEF Good, Cleared
  <2>2. CASE given[f] # List(<<>>)
    BY <1>3, <1>5, <2>2 DEF LinksOrNull
  <2> QED BY <2>1, <2>2
<1>7. \A f \in DOMAIN doc : Decodes(f, shown[f]) /\ Decoded(shown[f]) = shown[f]
  BY <1>1, <1>4, <1>6, GoodAgain
<1>8. NormalizeUpdate(shown) = Taken(UpdateInput(shown))
  <2>1. DOMAIN shown \subseteq UpdateFields /\ DOMAIN shown # {}
        /\ \A f \in UpdateFields : ~UpdateFails(shown, f)
    BY <1>1, <1>2, <1>7 DEF UpdateFails, Given
  <2> HIDE DEF shown
  <2> QED BY <2>1, UpdateTaken
<1>9. UpdateInput(shown) = [f \in DOMAIN given |-> LinksOrNull(given[f])]
  <2> HIDE DEF shown, given
  <2> QED BY <1>2, <1>3, <1>7 DEF UpdateInput
<1>10. Fits(shown, {}, UpdateSchema)
  <2>1. DOMAIN UpdateSchema = UpdateFields
    BY UpdateFieldsAre DEF UpdateSchema
  <2>2. \A f \in DOMAIN shown : \E type \in UpdateSchema[f] : Conforms(type, shown[f])
    BY <1>1, <1>2, <1>4, <1>6, GoodConforms
  <2> HIDE DEF shown
  <2> QED BY <1>1, <1>2, <2>1, <2>2 DEF Fits
<1> QED BY <1>8, <1>9, <1>10

-----------------------------------------------------------------------------
(* The preview of a cancellation has the published type.                   *)
LEMMA CancelFits ==
  ASSUME NEW doc, NormalizeCancel(doc).code = "OK"
  PROVE  Fits(PublicCancel(NormalizeCancel(doc).input), DOMAIN CancelPreviewSchema, CancelPreviewSchema)
<1> DEFINE shown == PublicCancel(NormalizeCancel(doc).input)
<1>1. \A b : Conforms("boolean", Bool(b))
  BY DEF Conforms, Bool, Is
<1>2. /\ DOMAIN shown = {"messageProvided", "notifyGuests"}
      /\ Conforms("boolean", shown["messageProvided"]) /\ Conforms("boolean", shown["notifyGuests"])
  BY <1>1 DEF PublicCancel
<1>3. /\ DOMAIN CancelPreviewSchema = {"messageProvided", "notifyGuests"}
      /\ \A f \in {"messageProvided", "notifyGuests"} : CancelPreviewSchema[f] = {"boolean"}
  BY DEF CancelPreviewSchema
<1> HIDE DEF shown
<1>4. \A f \in DOMAIN shown : \E type \in CancelPreviewSchema[f] : Conforms(type, shown[f])
  BY <1>2, <1>3
<1>5. Fits(shown, DOMAIN CancelPreviewSchema, CancelPreviewSchema)
  BY <1>2, <1>3, <1>4 DEF Fits
<1> QED BY <1>5 DEF shown

-----------------------------------------------------------------------------
(* The answer to an invitation: what is made of a document that is taken.  *)
FirstRSVP(doc) == FirstOf(RSVPOrder, LAMBDA f : RSVPFails(doc, f))
RSVPInput(doc) ==
  [status |-> StatusIn(doc),
   displayName |-> Trim(TextIn(doc, "displayName")),
   partySize |-> doc["partySize"].number,
   plusOnes |-> [i \in DOMAIN PlusOnes(doc) |-> Trim(TextOf(PlusOnes(doc)[i]))],
   message |-> Message(doc),
   timezone |-> TextIn(doc, "timezone"),
   questionnaireResponse |-> Questionnaire(doc)]

LEMMA RSVPOrderIs == DOMAIN RSVPOrder = 1 .. 7 /\ \A i \in 1 .. 7 : RSVPOrder[i] # "none"
  BY DEF RSVPOrder

LEMMA RSVPIs ==
  ASSUME NEW doc
  PROVE  NormalizeRSVP(doc) =
           IF \E f \in DOMAIN doc : f \notin RSVPFields THEN Unknown
           ELSE IF StatusIn(doc) \notin {"going", "not-going", "interested"} THEN Refused("status")
           ELSE IF StatusIn(doc) = "interested"
           THEN IF DOMAIN doc = {"status"} THEN Taken([status |-> "interested"])
                ELSE [code |-> "INTEREST_INPUT_INVALID"]
           ELSE IF FirstRSVP(doc) # None THEN Refused(FirstRSVP(doc))
           ELSE Taken(RSVPInput(doc))
  BY DEF NormalizeRSVP, RSVPInput, FirstOf, FirstRSVP

LEMMA RSVPFirst ==
  ASSUME NEW doc, FirstRSVP(doc) = None, NEW i \in 1 .. 7
  PROVE  ~RSVPFails(doc, RSVPOrder[i])
<1> SUFFICES ASSUME RSVPFails(doc, RSVPOrder[i]) PROVE FALSE
  OBVIOUS
<1> DEFINE S == {j \in 1 .. 7 : RSVPFails(doc, RSVPOrder[j])}
<1>1. S \in SUBSET (1 .. 10) /\ S # {}
  OBVIOUS
<1>2. PICK k \in S : \A j \in 1 .. k - 1 : j \notin S
  BY <1>1, LeastIndex
<1>3. k \in 1 .. 7 /\ RSVPFails(doc, RSVPOrder[k])
      /\ \A j \in 1 .. k - 1 : ~RSVPFails(doc, RSVPOrder[j])
  BY <1>2
<1> QED BY <1>3, RSVPOrderIs DEF FirstRSVP, FirstOf, None

LEMMA RSVPTaken ==
  ASSUME NEW doc, NormalizeRSVP(doc).code = "OK"
  PROVE  \/ NormalizeRSVP(doc) = Taken([status |-> "interested"])
         \/ /\ NormalizeRSVP(doc) = Taken(RSVPInput(doc)) /\ StatusIn(doc) \in {"going", "not-going"}
            /\ FirstRSVP(doc) = None
<1>1. Unknown.code # "OK" /\ \A f : Refused(f).code # "OK"
  BY DEF Unknown, Refused
<1> QED BY RSVPIs, <1>1

(* What the checks of an answer to an invitation leave. *)
LEMMA RSVPChecked ==
  ASSUME NEW doc, FirstRSVP(doc) = None
  PROVE  /\ Trim(TextIn(doc, "displayName")) # "" /\ Trim(TextIn(doc, "displayName")) \notin Long[50]
         /\ doc["partySize"].number >= 1
         /\ \A i \in DOMAIN PlusOnes(doc) : Trim(TextOf(PlusOnes(doc)[i])) # ""
         /\ TextIn(doc, "timezone") \in Zones
         /\ Questionnaire(doc) \in {Null, Answers(TRUE)} /\ QuestionnaireFits(doc)
<1>1. \A f \in {"displayName", "partySize", "plusOnes", "timezone", "questionnaireResponse"} :
        ~RSVPFails(doc, f)
  <2>1. /\ RSVPOrder[1] = "displayName" /\ RSVPOrder[2] = "partySize" /\ RSVPOrder[3] = "plusOnes"
        /\ RSVPOrder[5] = "timezone" /\ RSVPOrder[7] = "questionnaireResponse"
    BY DEF RSVPOrder
  <2> QED BY <2>1, RSVPFirst
<1>2. Trim(TextIn(doc, "displayName")) # "" /\ Trim(TextIn(doc, "displayName")) \notin Long[50]
  BY <1>1 DEF RSVPFails
<1>3. doc["partySize"].number >= 1
  BY <1>1 DEF RSVPFails
<1>4. ASSUME NEW i \in DOMAIN PlusOnes(doc) PROVE Trim(TextOf(PlusOnes(doc)[i])) # ""
  <2>1. CASE Given(doc, "plusOnes")
    <3>1. \A j \in DOMAIN doc["plusOnes"].list : Trim(TextOf(doc["plusOnes"].list[j])) # ""
      BY <1>1, <2>1 DEF RSVPFails
    <3> QED BY <1>4, <2>1, <3>1 DEF PlusOnes
  <2>2. CASE ~Given(doc, "plusOnes")
    <3>1. DOMAIN <<>> = {}
      OBVIOUS
    <3> QED BY <1>4, <2>2, <3>1 DEF PlusOnes
  <2> QED BY <2>1, <2>2
<1>5. TextIn(doc, "timezone") \in Zones
  BY <1>1 DEF RSVPFails
<1>6. Questionnaire(doc) \in {Null, Answers(TRUE)} /\ QuestionnaireFits(doc)
  BY <1>1 DEF RSVPFails
<1> QED BY <1>2, <1>3, <1>4, <1>5, <1>6

(* The preview of an answer has the published type.                        *)
LEMMA RSVPFits ==
  ASSUME NEW doc, NormalizeRSVP(doc).code = "OK"
  PROVE  LET given == NormalizeRSVP(doc).input IN
         Fits(PublicRSVP(given), DOMAIN RSVPPreviewSchema(given.status), RSVPPreviewSchema(given.status))
<1>1. CASE NormalizeRSVP(doc) = Taken([status |-> "interested"])
  <2> DEFINE given == [status |-> "interested"]
  <2>1. NormalizeRSVP(doc).input = given
    BY <1>1 DEF Taken
  <2>2. PublicRSVP(given) = [status |-> Text("interested")]
    BY DEF PublicRSVP
  <2>3. RSVPPreviewSchema(given.status) = [status |-> {"interested"}]
    BY DEF RSVPPreviewSchema
  <2>4. Conforms("interested", Text("interested"))
    BY ShapesDiffer DEF Conforms
  <2>5. Fits([status |-> Text("interested")], DOMAIN [status |-> {"interested"}], [status |-> {"interested"}])
    BY <2>4 DEF Fits
  <2> QED BY <2>1, <2>2, <2>3, <2>5
<1>2. CASE /\ NormalizeRSVP(doc) = Taken(RSVPInput(doc)) /\ StatusIn(doc) \in {"going", "not-going"}
           /\ FirstRSVP(doc) = None
  <2> DEFINE given == RSVPInput(doc)
             shown == PublicRSVP(given)
             schema == RSVPPreviewSchema(given.status)
  <2>1. NormalizeRSVP(doc).input = given
    BY <1>2 DEF Taken
  <2>2. given.status = StatusIn(doc) /\ given.status # "interested"
    BY <1>2 DEF RSVPInput
  <2>3. /\ DOMAIN shown = {"status", "displayName", "partySize", "plusOnes", "messageProvided",
                           "timezone", "questionnaireResponse"}
        /\ shown["status"] = Text(given.status)
        /\ shown["displayName"] = Text(given.displayName)
        /\ shown["partySize"] = Number(given.partySize)
        /\ shown["plusOnes"] = List([i \in DOMAIN given.plusOnes |-> Text(given.plusOnes[i])])
        /\ shown["messageProvided"] = Bool(given.message # Null)
        /\ shown["timezone"] = Text(given.timezone)
        /\ shown["questionnaireResponse"] = given.questionnaireResponse
    BY <2>2 DEF PublicRSVP
  <2>4. /\ DOMAIN schema = {"status", "displayName", "partySize", "plusOnes", "messageProvided",
                            "timezone", "questionnaireResponse"}
        /\ schema["status"] = {given.status} /\ schema["displayName"] = {"visible"}
        /\ schema["partySize"] = {"positive"} /\ schema["plusOnes"] = {"names"}
        /\ schema["messageProvided"] = {"boolean"} /\ schema["timezone"] = {"nonempty"}
        /\ "null" \in schema["questionnaireResponse"]
        /\ given.status = "going" => "questionnaire" \in schema["questionnaireResponse"]
    BY <2>2 DEF RSVPPreviewSchema
  <2>5. /\ given.displayName = Trim(TextIn(doc, "displayName"))
        /\ given.partySize = doc["partySize"].number
        /\ given.plusOnes = [i \in DOMAIN PlusOnes(doc) |-> Trim(TextOf(PlusOnes(doc)[i]))]
        /\ given.timezone = TextIn(doc, "timezone")
        /\ given.questionnaireResponse = Questionnaire(doc)
    BY DEF RSVPInput
  <2> HIDE DEF given, shown, schema
  <2>6. Conforms(given.status, shown["status"])
    <3>1. given.status \in {"going", "not-going"}
      BY <1>2, <2>2
    <3>2. Is("text", shown["status"]) /\ shown["status"].text = given.status
      BY <2>3, ShapesDiffer
    <3> QED BY <3>1, <3>2 DEF Conforms
  <2>7. Conforms("visible", shown["displayName"])
    <3>1. Is("text", shown["displayName"]) /\ shown["displayName"].text = given.displayName
      BY <2>3, ShapesDiffer
    <3>2. Trim(given.displayName) = given.displayName
      BY <2>5, TrimTwice
    <3>3. given.displayName # "" /\ given.displayName \notin Long[50]
      BY <1>2, <2>5, RSVPChecked
    <3> QED BY <3>1, <3>2, <3>3 DEF Conforms
  <2>8. Conforms("positive", shown["partySize"])
    <3>1. Is("number", shown["partySize"]) /\ shown["partySize"].number = doc["partySize"].number
      BY <2>3, <2>5, ShapesDiffer
    <3>2. doc["partySize"].number >= 1
      BY <1>2, RSVPChecked
    <3> QED BY <3>1, <3>2 DEF Conforms
  <2>9. Conforms("names", shown["plusOnes"])
    <3> DEFINE names == [i \in DOMAIN given.plusOnes |-> Text(given.plusOnes[i])]
    <3>1. Is("list", shown["plusOnes"]) /\ shown["plusOnes"].list = names
      BY <2>3, ShapesDiffer
    <3>2. ASSUME NEW i \in DOMAIN given.plusOnes PROVE Trim(given.plusOnes[i]) # ""
      <4>1. i \in DOMAIN PlusOnes(doc) /\ given.plusOnes[i] = Trim(TextOf(PlusOnes(doc)[i]))
        BY <2>5
      <4>2. Trim(TextOf(PlusOnes(doc)[i])) # ""
        BY <1>2, <4>1, RSVPChecked
      <4> QED BY <4>1, <4>2, TrimTwice
    <3>3. ASSUME NEW i \in DOMAIN names PROVE Is("text", names[i]) /\ Trim(names[i].text) # ""
      <4>1. i \in DOMAIN given.plusOnes /\ names[i] = Text(given.plusOnes[i])
        OBVIOUS
      <4>2. Is("text", names[i]) /\ names[i].text = given.plusOnes[i]
        BY <4>1, ShapesDiffer
      <4> QED BY <3>2, <4>1, <4>2
    <3> HIDE DEF names
    <3> QED BY <3>1, <3>3 DEF Conforms
  <2>10. Conforms("boolean", shown["messageProvided"])
    BY <2>3 DEF Conforms, Bool, Is
  <2>11. Conforms("nonempty", shown["timezone"])
    <3>1. Is("text", shown["timezone"]) /\ shown["timezone"].text = given.timezone
      BY <2>3, ShapesDiffer
    <3>2. given.timezone # ""
      BY <1>2, <2>5, RSVPChecked, EmptyWord
    <3> QED BY <3>1, <3>2 DEF Conforms
  <2>12. \E type \in schema["questionnaireResponse"] : Conforms(type, shown["questionnaireResponse"])
    <3>1. CASE Questionnaire(doc) = Null
      <4>1. Conforms("null", shown["questionnaireResponse"])
        BY <2>3, <2>5, <3>1 DEF Conforms
      <4> QED BY <2>4, <4>1
    <3>2. CASE Questionnaire(doc) # Null
      <4>1. Questionnaire(doc) = Answers(TRUE) /\ StatusIn(doc) # "not-going"
        BY <1>2, <3>2, RSVPChecked DEF QuestionnaireFits
      <4>2. Conforms("questionnaire", shown["questionnaireResponse"])
        BY <2>3, <2>5, <4>1 DEF Conforms
      <4>3. given.status = "going"
        BY <1>2, <2>2, <4>1
      <4> QED BY <2>4, <4>2, <4>3
    <3> QED BY <3>1, <3>2
  <2>13. \A f \in DOMAIN shown : \E type \in schema[f] : Conforms(type, shown[f])
    BY <2>3, <2>4, <2>6, <2>7, <2>8, <2>9, <2>10, <2>11, <2>12
  <2>14. Fits(shown, DOMAIN schema, schema)
    BY <2>3, <2>4, <2>13 DEF Fits
  <2> QED BY <2>1, <2>14 DEF given, shown, schema
<1> QED BY <1>1, <1>2, RSVPTaken

-----------------------------------------------------------------------------
(* The run of the program: which documents there are, and that an answer OK *)
(* to a command that takes one is the normaliser's.                        *)
(*                                                                         *)
(* Commands that take a document take flags.                               *)
TakesFlags(c) == c.name \in ByInput => c.taken \notin {"exact", "event"}
LEMMA CatalogTakesFlags == \A c \in Catalog \cup {NoCommand} : TakesFlags(c)
<1>1. \A c \in AccountCommands \cup {NoCommand} : TakesFlags(c)
  BY DEF AccountCommands, NoCommand, Alone, Command, TakesFlags, ByInput
<1>2. \A c \in ListCommands : TakesFlags(c)
  BY DEF ListCommands, Lister, OfContact, Command, TakesFlags, ByInput
<1>3. \A c \in EventCommands : TakesFlags(c)
  BY DEF EventCommands, Alone, Command, TakesFlags, ByInput
<1>4. \A c \in ReplyCommands : TakesFlags(c)
  BY DEF ReplyCommands, Alone, Command, TakesFlags, ByInput
<1>5. \A c \in CohostCommands : TakesFlags(c)
  BY DEF CohostCommands, Alone, OfContact, Command, TakesFlags, ByInput
<1> QED BY <1>1, <1>2, <1>3, <1>4, <1>5 DEF Catalog

(* The documents that flags stand for. *)
LEMMA FlagsDocumentIs == IsDocument(FlagsDocument)
<1> DEFINE scalars == DOMAIN values \ {"--input"}
           fields == [f \in {FieldOf(flag) : flag \in scalars} |->
                        FlagJson(CHOOSE flag \in scalars : FieldOf(flag) = f)]
<1>1. /\ OneKind(Other) /\ OneKind(Null)
      /\ \A w : OneKind(Text(w)) /\ OneKind(Number(w)) /\ OneKind(List(w))
  <2>1. OneKind(Other)
    BY DEF OneKind, Other, Is, Kinds
  <2> QED BY <2>1, ShapesDiffer
<1>2. \A w : OneKind(JsonOf(w))
  BY <1>1, JsonAssumption DEF JsonOf
<1>3. \A flag : OneKind(FlagJson(flag))
  <2> TAKE flag
  <2>1. CASE flag \in {"--guest-limit", "--party-size"}
    BY <1>2, <2>1 DEF FlagJson
  <2>2. CASE flag = "--notify-guests"
    BY <1>2, <2>2 DEF FlagJson
  <2>3. CASE flag = "--questionnaire-response"
    BY <1>1, <1>2, <2>3 DEF FlagJson
  <2>4. CASE flag \notin {"--guest-limit", "--party-size", "--notify-guests", "--questionnaire-response"}
    BY <1>1, <2>4 DEF FlagJson
  <2> QED BY <2>1, <2>2, <2>3, <2>4
<1>4. IsDocument(fields)
  BY <1>3 DEF IsDocument
<1>5. OneKind(RepeatedJson)
  BY <1>1 DEF RepeatedJson
<1>6. FlagsDocument = IF DOMAIN many = {} THEN fields ELSE With(fields, RepeatedField, RepeatedJson)
  BY DEF FlagsDocument
<1> HIDE DEF fields
<1>7. IsDocument(With(fields, RepeatedField, RepeatedJson))
  <2> DEFINE doc == With(fields, RepeatedField, RepeatedJson)
  <2>1. DOMAIN doc = DOMAIN fields \cup {RepeatedField}
    BY WithDomain
  <2>2. doc[RepeatedField] = RepeatedJson /\ \A k \in DOMAIN fields \ {RepeatedField} : doc[k] = fields[k]
    BY WithValues
  <2> HIDE DEF doc
  <2>3. IsDocument(doc)
    BY <1>4, <1>5, <2>1, <2>2 DEF IsDocument
  <2> QED BY <2>3 DEF doc
<1> QED BY <1>4, <1>6, <1>7

(* What is answered to a command that takes a document is what the         *)
(* normaliser makes of one.                                                *)
Verdict ==
  pc = "done" /\ answer.code = "OK" /\ command.name \in ByInput =>
    \E doc : IsDocument(doc) /\ answer = Normalize(command.name, doc)
FileRead == input.file # NoDocument => IsDocument(input.file)
VerdictInv == FileRead /\ Verdict

LEMMA VerdictInit == Init => VerdictInv
<1> SUFFICES ASSUME Init PROVE VerdictInv
  OBVIOUS
<1>1. PICK f \in Families : \E n \in 0 .. f.most :
        \E rest \in [1 .. n -> f.rest] : \E doc \in f.files :
           input = [argv |-> f.first \o rest, file |-> doc]
  BY DEF Init
<1>2. PICK n \in 0 .. f.most : \E rest \in [1 .. n -> f.rest] : \E doc \in f.files :
        input = [argv |-> f.first \o rest, file |-> doc]
  BY <1>1
<1>3. input.file \in f.files
  BY <1>2
<1>4. pc = "start"
  BY DEF Init
<1> QED BY <1>3, <1>4, FamilyAssumption DEF VerdictInv, Verdict, FileRead

(* A check of the flags that fails is not called OK.                       *)
LEMMA ChecksFail ==
  ASSUME FirstOf(Checks, Violates) # None
  PROVE  FirstOf(Checks, Violates) # "OK"
<1>1. \E n \in 0 .. 10 : DOMAIN Checks = 1 .. n /\ \A i \in 1 .. n : Checks[i] # "OK"
  BY DEF Checks
<1>2. PICK n \in 0 .. 10 : DOMAIN Checks = 1 .. n /\ \A i \in 1 .. n : Checks[i] # "OK"
  BY <1>1
<1>3. PICK i \in 1 .. n : Violates(Checks[i])
  BY <1>2 DEF FirstOf
<1> DEFINE S == {j \in 1 .. n : Violates(Checks[j])}
<1>4. S \in SUBSET (1 .. 10) /\ S # {}
  BY <1>3
<1>5. PICK k \in S : \A j \in 1 .. k - 1 : j \notin S
  BY <1>4, LeastIndex
<1>6. k \in 1 .. n /\ Violates(Checks[k]) /\ \A j \in 1 .. k - 1 : ~Violates(Checks[j])
  BY <1>5
<1> HIDE DEF S
<1> QED BY <1>2, <1>6 DEF FirstOf

LEMMA VerdictStep == TypeOK /\ VerdictInv /\ [Next]_vars => VerdictInv'
<1> SUFFICES ASSUME TypeOK, VerdictInv, [Next]_vars PROVE VerdictInv'
  OBVIOUS
<1>0. input' = input
  BY DEF Next, vars, Help, Begin, SiftGlobal, SiftWord, Dispatch, TakeEvent, RefuseFlag, TakeSwitch,
         TakeValue, TakeRepeated, CheckFlags, ReadDocument
<1>1. FileRead'
  BY <1>0 DEF VerdictInv, FileRead
<1> USE DEF Answer, Fail
<1>2. CASE Help \/ SiftGlobal \/ RefuseFlag
  <2>1. pc' = "done" => answer'.code # "OK"
    <3>1. CASE Help
      BY <3>1 DEF Help
    <3>2. CASE SiftGlobal
      BY <3>2 DEF SiftGlobal
    <3>3. CASE RefuseFlag
      BY <3>3 DEF RefuseFlag, FlagProblem
    <3> QED BY <1>2, <3>1, <3>2, <3>3
  <2> QED BY <1>1, <2>1 DEF VerdictInv, Verdict
<1>3. CASE Begin \/ SiftWord \/ TakeSwitch \/ TakeValue \/ TakeRepeated
  <2>1. pc' # "done"
    BY <1>3 DEF Begin, SiftWord, TakeSwitch, TakeValue, TakeRepeated, ReadingFlag
  <2> QED BY <1>1, <2>1 DEF VerdictInv, Verdict
<1>4. CASE Dispatch
  <2>1. ASSUME pc' = "done", answer'.code = "OK" PROVE command' \in Catalog /\ command'.taken = "exact"
    BY <1>4, <2>1 DEF Dispatch, Start
  <2> QED BY <1>1, <2>1, CatalogTakesFlags DEF VerdictInv, Verdict, TakesFlags
<1>5. CASE TakeEvent
  <2>1. ASSUME pc' = "done", answer'.code = "OK" PROVE command.taken = "event"
    <3>1. CASE Panics
      BY <1>5, <2>1, <3>1 DEF TakeEvent
    <3>2. CASE ~Panics /\ (Len(words) < at \/ Trim(words[at]) = "")
      <4>1. answer' = [code |-> "EVENT_ID_REQUIRED"]
        BY <1>5, <3>2 DEF TakeEvent
      <4> QED BY <2>1, <4>1
    <3>3. CASE ~Panics /\ ~(Len(words) < at \/ Trim(words[at]) = "")
      BY <1>5, <2>1, <3>3 DEF TakeEvent
    <3> QED BY <3>1, <3>2, <3>3
  <2>2. command' = command
    BY <1>5 DEF TakeEvent
  <2> QED BY <1>1, <2>1, <2>2, CatalogTakesFlags DEF TypeOK, VerdictInv, Verdict, TakesFlags
<1>6. CASE CheckFlags
  <2>1. ASSUME pc' = "done", answer'.code = "OK" PROVE command.name \notin ByInput
    <3> DEFINE problem == FirstOf(Checks, Violates)
    <3>1. IF problem # None THEN Fail(problem)
          ELSE IF command.name \in ByInput THEN pc' = "document" /\ UNCHANGED answer
          ELSE Answer([code |-> "OK"])
      BY <1>6 DEF CheckFlags
    <3>2. problem # None => problem # "OK"
      BY ChecksFail
    <3> HIDE DEF problem
    <3> QED BY <2>1, <3>1, <3>2
  <2>2. command' = command
    BY <1>6 DEF CheckFlags
  <2> QED BY <1>1, <2>1, <2>2 DEF VerdictInv, Verdict
<1>7. CASE ReadDocument
  <2>1. ASSUME answer'.code = "OK"
        PROVE  answer' = Normalize(command.name, Document) /\ Document # NoDocument
    BY <1>7, <2>1 DEF ReadDocument
  <2>2. ASSUME Document # NoDocument PROVE IsDocument(Document)
    BY <2>2, FlagsDocumentIs DEF Document, VerdictInv, FileRead
  <2>3. command' = command
    BY <1>7 DEF ReadDocument
  <2> QED BY <1>1, <2>1, <2>2, <2>3 DEF VerdictInv, Verdict
<1>8. CASE UNCHANGED vars
  BY <1>1, <1>8 DEF vars, VerdictInv, Verdict
<1> QED BY <1>2, <1>3, <1>4, <1>5, <1>6, <1>7, <1>8 DEF Next

LEMMA VerdictImplies == VerdictInv => PreviewIsFaithful
<1> SUFFICES ASSUME VerdictInv, pc = "done", answer.code = "OK", command.name \in ByInput
             PROVE  /\ Published
                    /\ command.name \in {"events.create", "events.update"} =>
                         Normalize(command.name, Shown) =
                           Taken([f \in DOMAIN answer.input |-> LinksOrNull(answer.input[f])])
  BY DEF PreviewIsFaithful
<1>1. PICK doc : IsDocument(doc) /\ answer = Normalize(command.name, doc)
  BY DEF VerdictInv, Verdict
<1>2. CASE command.name = "events.create"
  <2>1. answer = NormalizeCreate(doc)
    BY <1>1, <1>2 DEF Normalize
  <2>2. answer = Taken(CreateInput(doc))
    BY <2>1, CreateTaken
  <2>3. answer.input = CreateInput(doc) /\ DOMAIN CreateInput(doc) = CreateFields
    BY <2>2 DEF Taken, CreateInput
  <2>4. Shown = PublicCreate(answer.input)
    BY <1>2 DEF Shown
  <2>5. Published = Fits(Shown, {"title", "start", "timezone"}, CreateSchema)
    BY <1>2 DEF Published
  <2>6. Normalize(command.name, Shown) = NormalizeCreate(Shown)
    BY <1>2 DEF Normalize
  <2> QED BY <1>1, <2>1, <2>3, <2>4, <2>5, <2>6, CreateAgain
<1>3. CASE command.name = "events.update"
  <2>1. answer = NormalizeUpdate(doc)
    BY <1>1, <1>3 DEF Normalize
  <2>2. answer = Taken(UpdateInput(doc))
    BY <2>1, UpdateTaken
  <2>3. answer.input = UpdateInput(doc)
    BY <2>2 DEF Taken
  <2>4. Shown = PublicUpdate(answer.input)
    BY <1>3 DEF Shown
  <2>5. Published = Fits(Shown, {}, UpdateSchema)
    BY <1>3 DEF Published
  <2>6. Normalize(command.name, Shown) = NormalizeUpdate(Shown)
    BY <1>3 DEF Normalize
  <2> QED BY <1>1, <2>1, <2>3, <2>4, <2>5, <2>6, UpdateAgain
<1>4. CASE command.name = "events.cancel"
  <2>1. answer = NormalizeCancel(doc)
    BY <1>1, <1>4 DEF Normalize
  <2>2. Shown = PublicCancel(answer.input)
    BY <1>4 DEF Shown
  <2>3. Published = Fits(Shown, DOMAIN CancelPreviewSchema, CancelPreviewSchema)
    BY <1>4 DEF Published
  <2> QED BY <1>4, <2>1, <2>2, <2>3, CancelFits
<1>5. CASE command.name = "rsvp.set"
  <2>1. answer = NormalizeRSVP(doc)
    BY <1>1, <1>5 DEF Normalize
  <2>2. Shown = PublicRSVP(answer.input)
    BY <1>5 DEF Shown
  <2>3. Published = Fits(Shown, DOMAIN RSVPPreviewSchema(answer.input.status),
                         RSVPPreviewSchema(answer.input.status))
    BY <1>5 DEF Published
  <2> QED BY <1>5, <2>1, <2>2, <2>3, RSVPFits
<1> QED BY <1>2, <1>3, <1>4, <1>5 DEF ByInput

(* For every command line and every JSON document: what a preview shows    *)
(* has the published type, and, given back as --input, is taken for the    *)
(* same input.                                                             *)
THEOREM PreviewsAreFaithful == Spec => []PreviewIsFaithful
<1>1. TypeOK /\ VerdictInv /\ [Next]_vars => VerdictInv'
  BY VerdictStep
<1> QED BY <1>1, VerdictInit, VerdictImplies, InvocationTypes, PTL DEF Spec
=============================================================================
