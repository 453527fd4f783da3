--------------------------- MODULE HostedEventProofs ---------------------------
(***************************************************************************)
(* Proofs about the hosted event, for any number of invocations, accounts  *)
(* and starting situations, and any changes by others.                     *)
(***************************************************************************)
EXTENDS HostedEventProps, FiniteSetTheorems, TLAPS

(* What was asked never changes. *)
Commands == \A p \in Proc : Command(inv[p])

(* The event's numbers and switches are what the decoder lets through.     *)
FieldsSound == \A f \in Fields : Sound(f, event[f])

(* A view that nobody has changed since it was read is still what the      *)
(* remote would show.                                                      *)
SeenIsInfo == \A p \in Proc : seen[p] # Unseen /\ ~moved[p] => seen[p] = Info

(* Whoever is about to send, or has sent, has read the event and passed    *)
(* the checks on it; a blast's groups are those of the guests it has read. *)
Ready(p) == pc[p] \in {"blasts", "send"} \/ wire[p] = "sent"
CheckedAt(p) ==
  /\ pc[p] \in {"event", "guest", "guests", "blasts", "send"} => wire[p] = "none"
  /\ pc[p] = "guest" => inv[p].do = "rsvp"
  /\ pc[p] \in {"guests", "blasts"} => inv[p].do = "blast"
  /\ pc[p] \in {"guest", "guests"} \/ Ready(p) => seen[p] # Unseen
  /\ Ready(p) /\ inv[p].do = "rsvp" /\ ~moved[p]
       => RSVP(inv[p], seen[p], guests[inv[p].account]) = "ok"
  /\ Ready(p) /\ inv[p].do = "update" => MergedRange(inv[p].input, seen[p]) = "ok"
  /\ Ready(p) /\ inv[p].do = "blast" /\ ~moved[p] => groups[p] = Audience(seen[p])
Checked == \A p \in Proc : CheckedAt(p)

-----------------------------------------------------------------------------
(* Every check and every answer of a call is "ok" or a declared failure.   *)
LEMMA ChecksAnswer ==
  /\ \A c, e : AfterEvent(c, e) \in Outcomes \cup {"ok"}
  /\ \A c, e, g : RSVP(c, e, g) \in Outcomes \cup {"ok"}
  /\ \A e, to, count : BlastPreconditions(e, to, count) \in Outcomes \cup {"ok"}
  /\ \A reply : /\ GetEventInfo(reply) \in Outcomes \cup {"ok"}
                /\ GetCurrentGuest(reply) \in Outcomes \cup {"ok"}
                /\ ListEventGuests(reply) \in Outcomes \cup {"ok"}
                /\ CountTextBlasts(reply) \in Outcomes \cup {"ok"}
  /\ \A c, reply : Completion(c, reply) \in Outcomes \cup {"ok"}
<1>1. \A c, e : AfterEvent(c, e) \in Outcomes \cup {"ok"}
  <2> TAKE c, e
  <2>1. MergedRange(c.input, e) \in Outcomes \cup {"ok"}
    BY DEF MergedRange, Outcomes
  <2>2. UpdatePreconditions(c.input, e) \in Outcomes \cup {"ok"}
    BY DEF UpdatePreconditions, Outcomes
  <2>3. Cancel(c, e) \in Outcomes \cup {"ok"}
    BY DEF Cancel, Outcomes
  <2>4. Update(c, e) \in Outcomes \cup {"ok"}
    BY <2>1, <2>2 DEF Update, Outcomes
  <2> QED BY <2>3, <2>4 DEF AfterEvent, Outcomes
<1>2. \A c, e, g : RSVP(c, e, g) \in Outcomes \cup {"ok"}
  <2> TAKE c, e, g
  <2>1. Questionnaire(c, e) \in Outcomes \cup {"ok"}
    BY DEF Questionnaire, Outcomes
  <2> QED BY <2>1 DEF RSVP, Outcomes
<1>3. \A e, to, count : BlastPreconditions(e, to, count) \in Outcomes \cup {"ok"}
  BY DEF BlastPreconditions, Outcomes
<1>4. \A reply, accepted : Judge(reply, accepted) \in Outcomes \cup {"ok"}
  BY DEF Judge, Outcomes
<1>5. \A reply : /\ GetEventInfo(reply) \in Outcomes \cup {"ok"}
                 /\ GetCurrentGuest(reply) \in Outcomes \cup {"ok"}
                 /\ ListEventGuests(reply) \in Outcomes \cup {"ok"}
                 /\ CountTextBlasts(reply) \in Outcomes \cup {"ok"}
  BY <1>4 DEF GetEventInfo, GetCurrentGuest, ListEventGuests, CountTextBlasts, Outcomes
<1>6. \A c, reply : Completion(c, reply) \in Outcomes \cup {"ok"}
  BY <1>4 DEF Completion, FirestorePatchEvent, CancelEvent, CreateTextBlast, MarkEventInterest,
     AddGuest
<1> QED BY <1>1, <1>2, <1>3, <1>5, <1>6

(* A view is never mistaken for no view. *)
LEMMA InfoIsAView == DOMAIN Info = Fields /\ Info # Unseen
<1>1. DOMAIN Info = Fields /\ "status" \in Fields
  BY DEF Info, Fields
<1>2. DOMAIN Unseen = {}
  BY DEF Unseen
<1> QED BY <1>1, <1>2

(* A blast is addressed to statuses, to the invited and the checked in.    *)
LEMMA AudienceType ==
  ASSUME NEW e
  PROVE  Audience(e) \subseteq Statuses \cup {"invited", "checkedIn"}
<1>1. ModeStatuses(e) \subseteq Statuses
  BY DEF ModeStatuses, Statuses, ApplyStatuses
<1> QED BY <1>1 DEF Audience

(* An update leaves the fields it does not name, and what it writes to the *)
(* ones it names is what they say.                                         *)
ShownAfter(e, input, f, path) ==
  IF ~Names(input, f) THEN e[path]
  ELSE IF path = "enableWaitlist" THEN IF input[f] = Null THEN Absent ELSE FALSE
  ELSE Says(input, f)

LEMMA PatchedFields ==
  ASSUME NEW e, NEW input, DOMAIN input \subseteq InputFields
  PROVE  /\ DOMAIN Patched(e, input) = Fields
         /\ \A f \in InputFields : \A path \in FieldPaths(f) :
              Patched(e, input)[path] = ShownAfter(e, input, f, path)
<1>1. DOMAIN Patched(e, input) = Fields
  BY DEF Patched
<1>2. ASSUME NEW f \in InputFields, NEW path \in FieldPaths(f)
      PROVE  /\ path \in Fields
             /\ path \in Mask(input) <=> Names(input, f)
  BY <1>2 DEF InputFields, FieldPaths, Fields, Mask, Names
<1>3. ASSUME NEW f \in InputFields, NEW path \in FieldPaths(f), Names(input, f)
      PROVE  Written(input, path) = IF path = "enableWaitlist"
                                    THEN IF input[f] = Null THEN Null ELSE FALSE
                                    ELSE input[f]
  BY <1>3 DEF InputFields, FieldPaths, Written
<1>4. FALSE # Null
  BY ConstantAssumption
<1>5. ASSUME NEW f \in InputFields, NEW path \in FieldPaths(f)
      PROVE  Patched(e, input)[path] = ShownAfter(e, input, f, path)
  <2>1. Patched(e, input)[path] =
          IF path \notin Mask(input) THEN e[path]
          ELSE IF Written(input, path) = Null THEN Absent ELSE Written(input, path)
    BY <1>2, <1>5 DEF Patched
  <2>2. CASE ~Names(input, f)
    BY <2>1, <2>2, <1>2, <1>5 DEF ShownAfter
  <2>3. CASE Names(input, f) /\ path = "enableWaitlist"
    BY <2>1, <2>3, <1>2, <1>3, <1>4, <1>5 DEF ShownAfter
  <2>4. CASE Names(input, f) /\ path # "enableWaitlist"
    BY <2>1, <2>4, <1>2, <1>3, <1>5 DEF ShownAfter, Says
  <2> QED BY <2>2, <2>3, <2>4
<1> QED BY <1>1, <1>5

-----------------------------------------------------------------------------
(* Types.                                                                  *)
Typed == TypeOK /\ Commands

LEMMA TypesInit == Init => Typed
<1> SUFFICES ASSUME Init PROVE Typed
  OBVIOUS
<1>1. PICK start \in Starts : /\ event = start.event /\ guests = start.guests
                              /\ inv = start.inv /\ meddled = start.meddled
                              /\ blasts = start.blasts
  BY DEF Init
<1>2. /\ DOMAIN event = Fields
      /\ guests \in [Accounts -> Guest]
      /\ DOMAIN inv = Proc
      /\ meddled \in 0 .. MaxMeddle /\ blasts \in Nat
      /\ Commands
  BY <1>1, StartsAssumption DEF Commands
<1>3. /\ now \in 0 .. MaxTime
      /\ pc \in [Proc -> {"event", "guest", "guests", "blasts", "send", "wait", "done"}]
      /\ DOMAIN seen = Proc
      /\ groups \in [Proc -> SUBSET (Statuses \cup {"invited", "checkedIn"})]
      /\ wire \in [Proc -> {"none", "sent", "landed", "lost"}]
      /\ moved \in [Proc -> BOOLEAN]
  BY ConstantAssumption DEF Init
<1>4. answer \in [Proc -> Outcomes] /\ writer \in [InputFields -> Proc \cup {Absent}]
  BY DEF Init, Outcomes
<1> QED BY <1>2, <1>3, <1>4 DEF Typed, TypeOK

(* What a request does to the event and the guests keeps their types.      *)
LEMMA EffectTypes ==
  ASSUME Typed, NEW p \in Proc, Effect(inv[p])
  PROVE  DOMAIN event' = Fields /\ guests' \in [Accounts -> Guest]
<1> DEFINE c == inv[p]
<1>1. c.party \in Nat /\ DOMAIN c.input \subseteq InputFields
  BY DEF Typed, Commands, Command
<1>2. DOMAIN event' = Fields
  <2>1. DOMAIN Patched(event, c.input) = Fields
    BY PatchedFields, <1>1
  <2> QED BY <2>1 DEF Effect, Typed, TypeOK
<1>3. RSVPStatus(c.intent) \in Statuses
  BY DEF RSVPStatus, Statuses, ApplyStatuses
<1>4. \A g \in Guest : Responded(g, c) \in Guest
  BY <1>1, <1>3 DEF Guest, Responded
<1>5. guests' \in [Accounts -> Guest]
  BY <1>4 DEF Effect, Typed, TypeOK
<1> QED BY <1>2, <1>5

LEMMA EndTypes ==
  ASSUME Typed, NEW p \in Proc, NEW a \in Outcomes, End(p, a)
  PROVE  /\ pc' \in [Proc -> {"event", "guest", "guests", "blasts", "send", "wait", "done"}]
         /\ answer' \in [Proc -> Outcomes]
BY DEF End, Typed, TypeOK

(* A read ends the invocation with a failure, or goes on.                  *)
LEMMA ProceedTypes ==
  ASSUME Typed, NEW p \in Proc, NEW check \in Outcomes \cup {"ok"},
         NEW point \in {"guest", "guests", "blasts", "send"}, NEW view, Proceed(p, check, point, view)
  PROVE  /\ pc' \in [Proc -> {"event", "guest", "guests", "blasts", "send", "wait", "done"}]
         /\ answer' \in [Proc -> Outcomes]
         /\ DOMAIN seen' = Proc
<1>1. CASE check = "ok"
  BY <1>1 DEF Proceed, Goto, Typed, TypeOK
<1>2. CASE check # "ok"
  BY <1>2, EndTypes DEF Proceed, Typed, TypeOK
<1> QED BY <1>1, <1>2

LEMMA OutdateTypes ==
  ASSUME Typed, NEW p, Outdate(p)
  PROVE  moved' \in [Proc -> BOOLEAN]
<1>1. \A q \in Proc : moved[q] \in BOOLEAN
  BY DEF Typed, TypeOK
<1> QED BY <1>1, Zenon DEF Outdate

LEMMA TypesStep == Typed /\ [Next]_vars => Typed'
<1> SUFFICES ASSUME Typed, [Next]_vars PROVE Typed'
  OBVIOUS
<1>1. Commands'
  <2>1. inv' = inv
    BY DEF Next, vars, ReadEvent, ReadGuest, ReadGuests, CountBlasts, Send, Land, Lose, Receive, Meddle, Tick
  <2> QED BY <2>1 DEF Typed, Commands, Command
<1>2. CASE UNCHANGED vars
  BY <1>1, <1>2 DEF Typed, TypeOK, vars
<1>3. ASSUME NEW p \in Proc, ReadEvent(p) PROVE Typed'
  <2>1. PICK reply \in Replies :
          Proceed(p, IF GetEventInfo(reply) # "ok" THEN GetEventInfo(reply)
                     ELSE AfterEvent(inv[p], Info), AfterEventPoint(inv[p]), Info)
    BY <1>3 DEF ReadEvent
  <2>2. AfterEventPoint(inv[p]) \in {"guest", "guests", "send"}
    BY DEF AfterEventPoint
  <2>3. (IF GetEventInfo(reply) # "ok" THEN GetEventInfo(reply) ELSE AfterEvent(inv[p], Info))
          \in Outcomes \cup {"ok"}
    BY ChecksAnswer
  <2>4. /\ pc' \in [Proc -> {"event", "guest", "guests", "blasts", "send", "wait", "done"}]
        /\ answer' \in [Proc -> Outcomes]
        /\ DOMAIN seen' = Proc
    BY <2>1, <2>2, <2>3, ProceedTypes
  <2> QED BY <1>1, <1>3, <2>4 DEF Typed, TypeOK, ReadEvent
<1>4. ASSUME NEW p \in Proc, ReadGuest(p) PROVE Typed'
  <2>1. PICK reply \in Replies :
          Proceed(p, IF GetCurrentGuest(reply) # "ok" THEN GetCurrentGuest(reply)
                     ELSE RSVP(inv[p], seen[p], guests[inv[p].account]), "send", seen[p])
    BY <1>4 DEF ReadGuest
  <2>2. (IF GetCurrentGuest(reply) # "ok" THEN GetCurrentGuest(reply)
         ELSE RSVP(inv[p], seen[p], guests[inv[p].account])) \in Outcomes \cup {"ok"}
    BY ChecksAnswer
  <2>3. /\ pc' \in [Proc -> {"event", "guest", "guests", "blasts", "send", "wait", "done"}]
        /\ answer' \in [Proc -> Outcomes]
        /\ DOMAIN seen' = Proc
    BY <2>1, <2>2, ProceedTypes
  <2> QED BY <1>1, <1>4, <2>3 DEF Typed, TypeOK, ReadGuest
<1>5. ASSUME NEW p \in Proc, ReadGuests(p) PROVE Typed'
  <2>1. PICK check \in Outcomes \cup {"ok"} :
          /\ Proceed(p, check, "blasts", seen[p])
          /\ groups' = [groups EXCEPT ![p] = IF check = "ok" THEN Audience(seen[p]) ELSE {}]
    BY <1>5, ChecksAnswer DEF ReadGuests
  <2>2. /\ pc' \in [Proc -> {"event", "guest", "guests", "blasts", "send", "wait", "done"}]
        /\ answer' \in [Proc -> Outcomes]
        /\ DOMAIN seen' = Proc
    BY <2>1, ProceedTypes
  <2>3. groups' \in [Proc -> SUBSET (Statuses \cup {"invited", "checkedIn"})]
    BY <2>1, AudienceType DEF Typed, TypeOK
  <2> QED BY <1>1, <1>5, <2>2, <2>3 DEF Typed, TypeOK, ReadGuests
<1>12. ASSUME NEW p \in Proc, CountBlasts(p) PROVE Typed'
  <2>1. PICK check \in Outcomes \cup {"ok"} :
          /\ Proceed(p, check, "send", seen[p])
          /\ groups' = [groups EXCEPT ![p] = IF check = "ok" THEN groups[p] ELSE {}]
    BY <1>12, ChecksAnswer DEF CountBlasts
  <2>2. /\ pc' \in [Proc -> {"event", "guest", "guests", "blasts", "send", "wait", "done"}]
        /\ answer' \in [Proc -> Outcomes]
        /\ DOMAIN seen' = Proc
    BY <2>1, ProceedTypes
  <2>3. groups' \in [Proc -> SUBSET (Statuses \cup {"invited", "checkedIn"})]
    BY <2>1 DEF Typed, TypeOK
  <2> QED BY <1>1, <1>12, <2>2, <2>3 DEF Typed, TypeOK, CountBlasts
<1>6. ASSUME NEW p \in Proc, Send(p) PROVE Typed'
  BY <1>1, <1>6 DEF Typed, TypeOK, Send, Goto
<1>7. ASSUME NEW p \in Proc, Land(p) PROVE Typed'
  <2>1. DOMAIN event' = Fields /\ guests' \in [Accounts -> Guest]
    BY <1>7, EffectTypes DEF Land
  <2>2. moved' \in [Proc -> BOOLEAN]
    BY <1>7, OutdateTypes DEF Land
  <2>3. writer' \in [InputFields -> Proc \cup {Absent}]
    BY <1>7 DEF Land, Typed, TypeOK
  <2>4. wire' \in [Proc -> {"none", "sent", "landed", "lost"}] /\ DOMAIN seen' = Proc
    BY <1>7 DEF Land, Typed, TypeOK
  <2>5. blasts' \in Nat
    BY <1>7 DEF Land, Effect, Typed, TypeOK
  <2> QED BY <1>1, <1>7, <2>1, <2>2, <2>3, <2>4, <2>5 DEF Typed, TypeOK, Land
<1>8. ASSUME NEW p \in Proc, Lose(p) PROVE Typed'
  BY <1>1, <1>8 DEF Typed, TypeOK, Lose
<1>9. ASSUME NEW p \in Proc, Receive(p) PROVE Typed'
  <2>1. PICK reply \in Replies :
          End(p, IF Completion(inv[p], reply) = "ok" THEN "submitted" ELSE Completion(inv[p], reply))
    BY <1>9 DEF Receive
  <2>2. (IF Completion(inv[p], reply) = "ok" THEN "submitted" ELSE Completion(inv[p], reply)) \in Outcomes
    BY ChecksAnswer DEF Outcomes
  <2>3. /\ pc' \in [Proc -> {"event", "guest", "guests", "blasts", "send", "wait", "done"}]
        /\ answer' \in [Proc -> Outcomes]
    BY <2>1, <2>2, EndTypes
  <2> QED BY <1>1, <1>9, <2>3 DEF Typed, TypeOK, Receive
<1>10. CASE Meddle
  <2>1. DOMAIN event' = Fields
    BY <1>10 DEF Meddle, Typed, TypeOK
  <2>2. guests' \in [Accounts -> Guest]
    BY <1>10, ConstantAssumption DEF Meddle, Typed, TypeOK
  <2>3. writer' \in [InputFields -> Proc \cup {Absent}]
    BY <1>10 DEF Meddle, Typed, TypeOK
  <2>4. moved' \in [Proc -> BOOLEAN]
    BY <1>10, OutdateTypes DEF Meddle
  <2>5. meddled' \in 0 .. MaxMeddle
    BY <1>10, ConstantAssumption DEF Meddle, Typed, TypeOK
  <2>6. blasts' \in Nat
    BY <1>10 DEF Meddle, Typed, TypeOK
  <2> QED BY <1>1, <1>10, <2>1, <2>2, <2>3, <2>4, <2>5, <2>6 DEF Typed, TypeOK, Meddle
<1>11. CASE Tick
  BY <1>1, <1>11, ConstantAssumption DEF Typed, TypeOK, Tick
<1> QED BY <1>2, <1>3, <1>4, <1>5, <1>6, <1>7, <1>8, <1>9, <1>10, <1>11, <1>12 DEF Next

(* Every variable of the hosted event stays in its domain.                 *)
THEOREM EventTypes == Spec => []TypeOK
<1>1. Typed => TypeOK
  BY DEF Typed
<1> QED BY TypesInit, TypesStep, <1>1, PTL DEF Spec

-----------------------------------------------------------------------------
(* Updates survive one another: the history variable writer is exact.      *)
LEMMA UpdateLands ==
  ASSUME Typed, NoUpdateIsLost, NEW p \in Proc, Land(p)
  PROVE  NoUpdateIsLost'
<1> DEFINE input == inv[p].input
<1>1. inv' = inv /\ DOMAIN input \subseteq InputFields
  BY DEF Land, Typed, Commands, Command
<1>2. ASSUME NEW f \in InputFields, NEW path \in FieldPaths(f)
      PROVE  event'[path] = ShownAfter(event, input, f, path)
  <2>1. CASE inv[p].do = "update"
    <3>1. event' = Patched(event, input)
      BY <2>1 DEF Land, Effect
    <3> QED BY <1>1, <1>2, <3>1, PatchedFields
  <2>2. CASE inv[p].do # "update"
    <3>1. ~Names(input, f)
      BY <2>2 DEF Typed, Commands, Command, Names
    <3>2. path # "status"
      BY DEF FieldPaths, InputFields
    <3>3. event'[path] = event[path]
      BY <2>2, <3>2 DEF Land, Effect
    <3> QED BY <3>1, <3>3 DEF ShownAfter
  <2> QED BY <2>1, <2>2
<1>3. \A f \in InputFields : writer'[f] = IF Names(input, f) THEN p ELSE writer[f]
  BY DEF Land
<1> SUFFICES ASSUME NEW f \in InputFields, writer'[f] # Absent, NEW path \in FieldPaths(f)
             PROVE  event'[path] =
                      IF path = "enableWaitlist"
                      THEN IF inv[writer'[f]].input[f] = Null THEN Absent ELSE FALSE
                      ELSE Says(inv[writer'[f]].input, f)
  BY <1>1 DEF NoUpdateIsLost, Says
<1>4. CASE Names(input, f)
  BY <1>2, <1>3, <1>4 DEF ShownAfter
<1>5. CASE ~Names(input, f)
  BY <1>2, <1>3, <1>5 DEF NoUpdateIsLost, ShownAfter
<1> QED BY <1>4, <1>5

LEMMA OthersChange ==
  ASSUME Typed, NoUpdateIsLost, Meddle
  PROVE  NoUpdateIsLost'
<1>1. inv' = inv
  BY DEF Meddle
<1>2. CASE UNCHANGED <<event, writer>>
  BY <1>1, <1>2 DEF NoUpdateIsLost, Says
<1>3. CASE \E g \in DOMAIN Values : \E v \in Values[g] \ {event[g]} :
             /\ event' = [event EXCEPT ![g] = v]
             /\ writer' = [f \in InputFields |-> IF g \in FieldPaths(f) THEN Absent ELSE writer[f]]
  <2>0. PICK g \in DOMAIN Values : \E v \in Values[g] \ {event[g]} :
          /\ event' = [event EXCEPT ![g] = v]
          /\ writer' = [f \in InputFields |-> IF g \in FieldPaths(f) THEN Absent ELSE writer[f]]
    BY <1>3
  <2>1. PICK v \in Values[g] \ {event[g]} :
          /\ event' = [event EXCEPT ![g] = v]
          /\ writer' = [f \in InputFields |-> IF g \in FieldPaths(f) THEN Absent ELSE writer[f]]
    BY <2>0
  <2>2. ASSUME NEW f \in InputFields, writer'[f] # Absent
        PROVE  writer'[f] = writer[f] /\ \A path \in FieldPaths(f) : event'[path] = event[path]
    BY <2>1, <2>2
  <2> SUFFICES ASSUME NEW f \in InputFields, writer'[f] # Absent, NEW path \in FieldPaths(f)
               PROVE  event'[path] =
                        IF path = "enableWaitlist"
                        THEN IF inv[writer'[f]].input[f] = Null THEN Absent ELSE FALSE
                        ELSE Says(inv[writer'[f]].input, f)
    BY <1>1 DEF NoUpdateIsLost, Says
  <2> QED BY <2>2 DEF NoUpdateIsLost
<1> QED BY <1>2, <1>3 DEF Meddle

(* What the last update of a field says is what the event shows, whatever  *)
(* other updates landed in between.                                        *)
THEOREM UpdatesSurvive == Spec => []NoUpdateIsLost
<1>1. Init => NoUpdateIsLost
  BY DEF Init, NoUpdateIsLost
<1>2. Typed /\ NoUpdateIsLost /\ [Next]_vars => NoUpdateIsLost'
  <2> SUFFICES ASSUME Typed, NoUpdateIsLost, [Next]_vars PROVE NoUpdateIsLost'
    OBVIOUS
  <2>1. CASE UNCHANGED <<event, inv, writer>>
    BY <2>1 DEF NoUpdateIsLost, Says
  <2>2. CASE \E p \in Proc : Land(p)
    BY <2>2, UpdateLands
  <2>3. CASE Meddle
    BY <2>3, OthersChange
  <2> QED BY <2>1, <2>2, <2>3 DEF Next, vars, ReadEvent, ReadGuest, ReadGuests, CountBlasts, Send, Lose,
          Receive, Tick
<1> QED BY <1>1, <1>2, TypesInit, TypesStep, PTL DEF Spec

-----------------------------------------------------------------------------
(* The event's fields keep their types: what an update writes to a number  *)
(* is a number, and others change a field to what the decoder lets through. *)
LEMMA PatchIsSound ==
  ASSUME FieldsSound, NEW c, Command(c)
  PROVE  \A f \in Fields : Sound(f, Patched(event, c.input)[f])
<1> DEFINE input == c.input
<1> TAKE f \in Fields
<1>1. Patched(event, input)[f] =
        IF f \notin Mask(input) THEN event[f]
        ELSE IF Written(input, f) = Null THEN Absent ELSE Written(input, f)
  BY DEF Patched
<1>2. CASE f \notin Mask(input)
  BY <1>1, <1>2 DEF FieldsSound
<1>3. CASE f \in Mask(input)
  <2>1. f \notin {"maxCountPerGuest", "questionnaireVersions", "questionnaireEnabled"}
    BY <1>3 DEF Mask, FieldPaths, Command, InputFields
  <2>2. /\ f = "startDate" => "start" \in DOMAIN input
        /\ f = "endDate" => "end" \in DOMAIN input
        /\ f = "maxCapacity" => "guestLimit" \in DOMAIN input
    BY <1>3 DEF Mask, FieldPaths, Command, InputFields
  <2>3. f \in Numbers => Written(input, f) \in Int \cup {Null}
    BY <2>1, <2>2 DEF Numbers, Written, Command
  <2>4. f \in Numbers => Patched(event, input)[f] \in Int \cup {Absent, Null}
    BY <1>1, <1>3, <2>3
  <2> QED BY <2>1, <2>4 DEF Sound
<1> QED BY <1>2, <1>3

LEMMA FieldsSoundStep == Typed /\ FieldsSound /\ [Next]_vars => FieldsSound'
<1> SUFFICES ASSUME Typed, FieldsSound, [Next]_vars PROVE FieldsSound'
  OBVIOUS
<1>1. CASE event' = event
  BY <1>1 DEF FieldsSound
<1>2. ASSUME NEW p \in Proc, Land(p) PROVE FieldsSound'
  <2>1. Command(inv[p])
    BY DEF Typed, Commands
  <2>2. CASE inv[p].do = "update"
    <3>1. event' = Patched(event, inv[p].input)
      BY <1>2, <2>2 DEF Land, Effect
    <3> QED BY <2>1, <3>1, PatchIsSound DEF FieldsSound
  <2>3. CASE inv[p].do # "update"
    <3>1. \A f \in Fields \ {"status"} : event'[f] = event[f]
      BY <1>2, <2>3 DEF Land, Effect, Typed, TypeOK
    <3>2. \A v : Sound("status", v)
      BY DEF Sound, Numbers
    <3> QED BY <3>1, <3>2 DEF FieldsSound
  <2> QED BY <2>2, <2>3
<1>3. CASE Meddle
  <2>1. CASE \E f \in DOMAIN Values : \E v \in Values[f] : event' = [event EXCEPT ![f] = v]
    <3>1. PICK f \in DOMAIN Values : \E v \in Values[f] : event' = [event EXCEPT ![f] = v]
      BY <2>1
    <3>2. PICK v \in Values[f] : event' = [event EXCEPT ![f] = v]
      BY <3>1
    <3>3. Sound(f, v)
      BY ConstantAssumption
    <3>4. \A g \in Fields : event'[g] = IF g = f THEN v ELSE event[g]
      BY <3>2 DEF Typed, TypeOK
    <3> QED BY <3>3, <3>4 DEF FieldsSound
  <2> QED BY <1>1, <1>3, <2>1 DEF Meddle
<1> QED BY <1>1, <1>2, <1>3 DEF Next, vars, ReadEvent, ReadGuest, ReadGuests, CountBlasts, Send, Lose,
        Receive, Tick

-----------------------------------------------------------------------------
(* The places taken: those of one guest, and those of all the others.      *)
PlacesOf(g, some) == UNION {{a} \X (1 .. Counted(g[a])) : a \in some}

LEMMA PlacesOfAParty ==
  ASSUME NEW a, NEW n \in Nat
  PROVE  IsFiniteSet({a} \X (1 .. n)) /\ Cardinality({a} \X (1 .. n)) = n
<1>1. IsFiniteSet(1 .. n) /\ Cardinality(1 .. n) = n
  <2>1. IsFiniteSet(1 .. n) /\ Cardinality(1 .. n) = IF 1 > n THEN 0 ELSE n - 1 + 1
    BY FS_Interval
  <2> QED BY <2>1
<1>2. IsFiniteSet({a}) /\ Cardinality({a}) = 1
  BY FS_Singleton
<1>3. /\ IsFiniteSet({a} \X (1 .. n))
      /\ Cardinality({a} \X (1 .. n)) = Cardinality({a}) * Cardinality(1 .. n)
  BY <1>1, <1>2, FS_Product
<1> QED BY <1>1, <1>2, <1>3

LEMMA PlacesAreFinite ==
  ASSUME NEW g \in [Accounts -> Guest], NEW some \in SUBSET Accounts
  PROVE  IsFiniteSet(PlacesOf(g, some))
<1> DEFINE f == [a \in some |-> {a} \X (1 .. Counted(g[a]))]
           sets == {f[a] : a \in some}
<1>1. IsFiniteSet(some)
  BY ConstantAssumption, FS_Subset
<1>2. f \in Surjection(some, sets)
  BY DEF Surjection
<1>3. IsFiniteSet(sets)
  BY <1>1, <1>2, FS_Surjection
<1>4. ASSUME NEW a \in some PROVE IsFiniteSet(f[a])
  <2>1. Counted(g[a]) \in Nat
    BY DEF Counted, Guest
  <2> QED BY <2>1, PlacesOfAParty
<1>5. IsFiniteSet(UNION sets)
  BY <1>3, <1>4, FS_UNION
<1>6. UNION sets = PlacesOf(g, some)
  BY DEF PlacesOf
<1> QED BY <1>5, <1>6

LEMMA PlacesOfOne ==
  ASSUME NEW g \in [Accounts -> Guest], NEW a \in Accounts
  PROVE  /\ Counted(g[a]) \in Nat
         /\ Cardinality(PlacesOf(g, Accounts \ {a})) \in Nat
         /\ Cardinality(PlacesOf(g, Accounts))
              = Cardinality(PlacesOf(g, Accounts \ {a})) + Counted(g[a])
<1> DEFINE mine == {a} \X (1 .. Counted(g[a]))
           others == PlacesOf(g, Accounts \ {a})
<1>1. Counted(g[a]) \in Nat
  BY DEF Counted, Guest
<1>2. IsFiniteSet(others) /\ Cardinality(others) \in Nat
  BY PlacesAreFinite, FS_CardinalityType
<1>3. IsFiniteSet(mine) /\ Cardinality(mine) = Counted(g[a])
  BY <1>1, PlacesOfAParty
<1>4. PlacesOf(g, Accounts) = others \cup mine
  BY DEF PlacesOf
<1>5. others \cap mine = {}
  BY DEF PlacesOf
<1>6. Cardinality(others \cap mine) = 0
  BY <1>5, FS_EmptySet
<1> HIDE DEF mine, others
<1>7. Cardinality(others \cup mine)
        = Cardinality(others) + Cardinality(mine) - Cardinality(others \cap mine)
  BY <1>2, <1>3, FS_Union
<1> QED BY <1>1, <1>2, <1>3, <1>4, <1>6, <1>7 DEF others

(* When one guest changes, what is taken changes by what it is counted.    *)
LEMMA TakenChanges ==
  ASSUME Typed, NEW a \in Accounts, NEW g \in Guest, guests' = [guests EXCEPT ![a] = g]
  PROVE  /\ Taken \in Nat /\ Counted(guests[a]) \in Nat
         /\ Taken' = Taken - Counted(guests[a]) + Counted(g)
<1>1. guests \in [Accounts -> Guest] /\ guests' \in [Accounts -> Guest] /\ guests'[a] = g
  BY DEF Typed, TypeOK
<1>2. Taken = Cardinality(PlacesOf(guests, Accounts))
  BY DEF Taken, Places, PlacesOf
<1>3. Taken' = Cardinality(PlacesOf(guests', Accounts))
  BY DEF Taken, Places, PlacesOf, Counted, Attends
<1>4. PlacesOf(guests', Accounts \ {a}) = PlacesOf(guests, Accounts \ {a})
  BY <1>1 DEF PlacesOf
<1>5. /\ Counted(guests[a]) \in Nat
      /\ Cardinality(PlacesOf(guests, Accounts \ {a})) \in Nat
      /\ Taken = Cardinality(PlacesOf(guests, Accounts \ {a})) + Counted(guests[a])
  BY <1>1, <1>2, PlacesOfOne
<1>6. /\ Counted(g) \in Nat
      /\ Taken' = Cardinality(PlacesOf(guests, Accounts \ {a})) + Counted(g)
  BY <1>1, <1>3, <1>4, PlacesOfOne
<1> QED BY <1>5, <1>6

(* Guests and places are counted in naturals.                              *)
LEMMA CountsAreNaturals == Typed => Taken \in Nat /\ GuestCount \in Nat
<1> SUFFICES ASSUME Typed PROVE Taken \in Nat /\ GuestCount \in Nat
  OBVIOUS
<1>1. IsFiniteSet(PlacesOf(guests, Accounts))
  BY PlacesAreFinite DEF Typed, TypeOK
<1>2. Taken = Cardinality(PlacesOf(guests, Accounts))
  BY DEF Taken, Places, PlacesOf
<1>3. IsFiniteSet({a \in Accounts : guests[a] # NoGuest})
  BY ConstantAssumption, FS_Subset
<1> QED BY <1>1, <1>2, <1>3, FS_CardinalityType DEF GuestCount

-----------------------------------------------------------------------------
(* What a view is worth.                                                   *)
LEMMA InfoDepends ==
  ASSUME UNCHANGED <<event, guests>>
  PROVE  Info' = Info /\ \A e : Audience(e)' = Audience(e)
<1>1. \A f : Derived(f)' = Derived(f)
  <2>1. Taken' = Taken
    BY DEF Taken, Places, Counted, Attends
  <2>2. GuestCount' = GuestCount
    BY DEF GuestCount
  <2> QED BY <2>1, <2>2 DEF Derived, Limited, HasValue
<1>2. Info' = Info
  BY <1>1 DEF Info, HasValue
<1>3. \A e : Audience(e)' = Audience(e)
  BY DEF Audience, With, ModeStatuses
<1> QED BY <1>2, <1>3

(* A step that changes the event or its guests marks every other view.     *)
LEMMA Outdated ==
  ASSUME Typed, SeenIsInfo, NEW p, Outdate(p), NEW q \in Proc, q # p,
         seen'[q] = seen[q], seen[q] # Unseen, ~moved'[q]
  PROVE  /\ event' = event /\ guests' = guests /\ ~moved[q] /\ seen[q] = Info
<1>1. moved'[q] = (moved[q] \/ (q # p /\ seen[q] # Unseen /\ (event' # event \/ guests' # guests)))
  BY DEF Outdate
<1>2. event' = event /\ guests' = guests /\ ~moved[q]
  BY <1>1
<1> QED BY <1>2 DEF SeenIsInfo

LEMMA SeenStep == Typed /\ SeenIsInfo /\ [Next]_vars => SeenIsInfo'
<1> SUFFICES ASSUME Typed, SeenIsInfo, [Next]_vars,
                    NEW q \in Proc, seen'[q] # Unseen, ~moved'[q]
             PROVE  seen'[q] = Info'
  BY DEF SeenIsInfo
<1>1. CASE UNCHANGED <<event, guests, seen, moved>>
  BY <1>1, InfoDepends DEF SeenIsInfo
<1>2. ASSUME NEW p \in Proc, ReadEvent(p) PROVE seen'[q] = Info'
  <2>1. UNCHANGED <<event, guests, moved>> /\ DOMAIN seen = Proc
    BY <1>2 DEF ReadEvent, Typed, TypeOK
  <2>2. \/ seen' = [seen EXCEPT ![p] = Info]
        \/ seen' = [seen EXCEPT ![p] = Unseen]
    BY <1>2 DEF ReadEvent, Proceed
  <2> QED BY <2>1, <2>2, InfoDepends DEF SeenIsInfo
<1>3. ASSUME NEW p \in Proc, ReadGuest(p) \/ ReadGuests(p) \/ CountBlasts(p) PROVE seen'[q] = Info'
  <2>1. UNCHANGED <<event, guests, moved>> /\ DOMAIN seen = Proc
    BY <1>3 DEF ReadGuest, ReadGuests, CountBlasts, Typed, TypeOK
  <2>2. \/ seen' = [seen EXCEPT ![p] = seen[p]]
        \/ seen' = [seen EXCEPT ![p] = Unseen]
    BY <1>3 DEF ReadGuest, ReadGuests, CountBlasts, Proceed
  <2> QED BY <2>1, <2>2, InfoDepends DEF SeenIsInfo
<1>4. ASSUME NEW p \in Proc, Land(p) PROVE seen'[q] = Info'
  <2>1. q # p /\ seen'[q] = seen[q]
    BY <1>4 DEF Land, Typed, TypeOK
  <2>2. event' = event /\ guests' = guests /\ seen[q] = Info
    BY <1>4, <2>1, Outdated DEF Land
  <2> QED BY <2>1, <2>2, InfoDepends
<1>5. ASSUME NEW p \in Proc, Lose(p) PROVE seen'[q] = Info'
  <2>1. q # p /\ seen'[q] = seen[q] /\ UNCHANGED <<event, guests, moved>>
    BY <1>5 DEF Lose, Typed, TypeOK
  <2> QED BY <2>1, InfoDepends DEF SeenIsInfo
<1>6. CASE Meddle
  <2>1. q # Absent /\ seen'[q] = seen[q]
    BY <1>6, ConstantAssumption DEF Meddle
  <2>2. event' = event /\ guests' = guests /\ seen[q] = Info
    BY <1>6, <2>1, Outdated DEF Meddle
  <2> QED BY <2>1, <2>2, InfoDepends
<1> QED BY <1>1, <1>2, <1>3, <1>4, <1>5, <1>6 DEF Next, vars, Send, Receive, Tick

-----------------------------------------------------------------------------
(* The checks are passed on the way to sending.                            *)
(* The check of an RSVP says the same of the same event and guest.         *)
LEMMA RSVPAgain ==
  ASSUME NEW q, inv' = inv, seen'[q] = seen[q], guests' = guests
  PROVE  RSVP(inv[q], seen[q], guests[inv[q].account])'
           = RSVP(inv[q], seen[q], guests[inv[q].account])
BY DEF RSVP, RSVPDrift, RSVPClosed, NoRoom, Limited, HasValue, AdditionalCount, Counted, Attends,
   Questionnaire, Asks, NoQuestions

(* What others do leaves an invocation where it is.                        *)
LEMMA CheckedElsewhere ==
  ASSUME Typed, SeenIsInfo, NEW q \in Proc, CheckedAt(q), NEW p, p # q,
         inv' = inv, pc'[q] = pc[q], wire'[q] = wire[q], seen'[q] = seen[q],
         groups'[q] = groups[q], Outdate(p) \/ UNCHANGED <<event, guests, moved>>
  PROVE  CheckedAt(q)'
<1>1. Ready(q)' <=> Ready(q)
  BY DEF Ready
<1>2. Ready(q) => seen[q] # Unseen
  BY DEF CheckedAt
<1>3. ASSUME Ready(q), ~moved'[q]
      PROVE  ~moved[q] /\ event' = event /\ guests' = guests
  <2>1. CASE Outdate(p)
    BY <1>2, <1>3, <2>1, Outdated
  <2>2. CASE UNCHANGED <<event, guests, moved>>
    BY <1>3, <2>2
  <2> QED BY <2>1, <2>2
<1>4. ASSUME Ready(q), inv[q].do = "blast", ~moved'[q]
      PROVE  (groups[q] = Audience(seen[q]))'
  <2>1. ~moved[q] /\ event' = event /\ guests' = guests
    BY <1>3, <1>4
  <2>2. groups[q] = Audience(seen[q])
    BY <1>4, <2>1 DEF CheckedAt
  <2>3. Audience(seen[q])' = Audience(seen[q])
    BY <2>1 DEF Audience, ModeStatuses, With
  <2> QED BY <2>2, <2>3
<1>5. ASSUME Ready(q), inv[q].do = "rsvp", ~moved'[q]
      PROVE  (RSVP(inv[q], seen[q], guests[inv[q].account]) = "ok")'
  <2>1. ~moved[q] /\ guests' = guests
    BY <1>3, <1>5
  <2>2. RSVP(inv[q], seen[q], guests[inv[q].account]) = "ok"
    BY <1>5, <2>1 DEF CheckedAt
  <2> QED BY <2>1, <2>2, RSVPAgain
<1>6. MergedRange(inv[q].input, seen[q])' = MergedRange(inv[q].input, seen[q])
  BY DEF MergedRange, MergedStart, MergedEnd
<1> QED BY <1>1, <1>4, <1>5, <1>6 DEF CheckedAt

LEMMA CheckedInit == Init => Checked
BY DEF Init, Checked, CheckedAt, Ready

LEMMA CheckedStep == Typed /\ SeenIsInfo /\ Checked /\ [Next]_vars => Checked'
<1> SUFFICES ASSUME Typed, SeenIsInfo, Checked, [Next]_vars, NEW q \in Proc
             PROVE  CheckedAt(q)'
  BY DEF Checked
<1>0. CheckedAt(q)
  BY DEF Checked
<1>1. CASE UNCHANGED vars
  <2>1. Absent # q
    BY ConstantAssumption
  <2> QED BY <1>0, <1>1, <2>1, CheckedElsewhere DEF vars
<1>2. ASSUME NEW p \in Proc, p # q,
             \/ ReadEvent(p) \/ ReadGuest(p) \/ ReadGuests(p) \/ CountBlasts(p) \/ Send(p)
             \/ Land(p) \/ Lose(p) \/ Receive(p)
      PROVE  CheckedAt(q)'
  <2>1. inv' = inv /\ (Outdate(p) \/ UNCHANGED <<event, guests, moved>>)
    BY <1>2 DEF ReadEvent, ReadGuest, ReadGuests, CountBlasts, Send, Land, Lose, Receive
  <2>2. wire'[q] = wire[q] /\ groups'[q] = groups[q]
    BY <1>2 DEF ReadEvent, ReadGuest, ReadGuests, CountBlasts, Send, Land, Lose, Receive, Typed, TypeOK
  <2>3. pc'[q] = pc[q] /\ seen'[q] = seen[q]
    BY <1>2 DEF ReadEvent, ReadGuest, ReadGuests, CountBlasts, Send, Land, Lose, Receive, Proceed, Goto, End,
       Typed, TypeOK
  <2> QED BY <1>0, <1>2, <2>1, <2>2, <2>3, CheckedElsewhere
<1>3. CASE ReadEvent(q)
  <2>1. /\ UNCHANGED <<inv, wire, groups>>
        /\ \E check : /\ Proceed(q, check, AfterEventPoint(inv[q]), Info)
                      /\ check = "ok" => AfterEvent(inv[q], Info) = "ok"
    BY <1>3 DEF ReadEvent
  <2>2. PICK check : /\ Proceed(q, check, AfterEventPoint(inv[q]), Info)
                     /\ check = "ok" => AfterEvent(inv[q], Info) = "ok"
    BY <2>1
  <2>3. wire'[q] = "none" /\ inv' = inv
    BY <1>0, <1>3, <2>1 DEF CheckedAt, ReadEvent
  <2>4. CASE check # "ok"
    <3>1. pc'[q] = "done"
      BY <2>2, <2>4 DEF Proceed, End, Typed, TypeOK
    <3> QED BY <2>3, <3>1 DEF CheckedAt, Ready
  <2>5. CASE check = "ok"
    <3>1. pc'[q] = AfterEventPoint(inv[q]) /\ seen'[q] = Info /\ Info # Unseen
      BY <2>2, <2>5, InfoIsAView DEF Proceed, Goto, Typed, TypeOK
    <3>2. inv[q].do = "update" => MergedRange(inv[q].input, Info) = "ok"
      BY <2>2, <2>5 DEF AfterEvent, Update
    <3>3. MergedRange(inv'[q].input, seen'[q]) = MergedRange(inv[q].input, Info)
      BY <2>3, <3>1
    <3>4. pc'[q] = "send" => inv[q].do \notin {"blast", "rsvp"}
      BY <3>1 DEF AfterEventPoint
    <3>5. pc'[q] \in {"guest", "guests", "send"}
      BY <3>1 DEF AfterEventPoint
    <3>6. /\ pc'[q] = "guest" => inv[q].do = "rsvp"
          /\ pc'[q] = "guests" => inv[q].do = "blast"
      BY <3>1 DEF AfterEventPoint
    <3> QED BY <2>3, <3>1, <3>2, <3>3, <3>4, <3>5, <3>6 DEF CheckedAt, Ready, MergedRange
  <2> QED BY <2>4, <2>5
<1>4. CASE ReadGuest(q)
  <2>1. PICK check :
          /\ Proceed(q, check, "send", seen[q])
          /\ check = "ok" => RSVP(inv[q], seen[q], guests[inv[q].account]) = "ok"
    BY <1>4 DEF ReadGuest
  <2>2. /\ inv' = inv /\ wire'[q] = "none" /\ inv[q].do = "rsvp" /\ seen[q] # Unseen
        /\ guests' = guests
    BY <1>0, <1>4 DEF CheckedAt, ReadGuest
  <2>3. CASE check # "ok"
    <3>1. pc'[q] = "done"
      BY <2>1, <2>3 DEF Proceed, End, Typed, TypeOK
    <3> QED BY <2>2, <3>1 DEF CheckedAt, Ready
  <2>4. CASE check = "ok"
    <3>1. pc'[q] = "send" /\ seen'[q] = seen[q]
      BY <2>1, <2>4 DEF Proceed, Goto, Typed, TypeOK
    <3>2. (RSVP(inv[q], seen[q], guests[inv[q].account]) = "ok")'
      BY <2>1, <2>2, <2>4, <3>1, RSVPAgain
    <3> QED BY <2>2, <3>1, <3>2 DEF CheckedAt, Ready
  <2> QED BY <2>3, <2>4
<1>5. CASE ReadGuests(q)
  <2>1. PICK check : /\ Proceed(q, check, "blasts", seen[q])
                     /\ groups' = [groups EXCEPT ![q] = IF check = "ok" THEN Audience(seen[q]) ELSE {}]
    BY <1>5 DEF ReadGuests
  <2>2. /\ inv' = inv /\ wire'[q] = "none" /\ inv[q].do = "blast" /\ seen[q] # Unseen
        /\ UNCHANGED <<event, guests>>
    BY <1>0, <1>5 DEF CheckedAt, ReadGuests
  <2>3. CASE check # "ok"
    <3>1. pc'[q] = "done"
      BY <2>1, <2>3 DEF Proceed, End, Typed, TypeOK
    <3> QED BY <2>2, <3>1 DEF CheckedAt, Ready
  <2>4. CASE check = "ok"
    <3>1. pc'[q] = "blasts" /\ seen'[q] = seen[q]
      BY <2>1, <2>4 DEF Proceed, Goto, Typed, TypeOK
    <3>2. groups'[q] = Audience(seen[q])
      BY <2>1, <2>4 DEF Typed, TypeOK
    <3>3. Audience(seen[q])' = Audience(seen[q])
      BY <2>2, <3>1, InfoDepends DEF Audience, ModeStatuses, With
    <3> QED BY <2>2, <3>1, <3>2, <3>3 DEF CheckedAt, Ready
  <2> QED BY <2>3, <2>4
<1>11. CASE CountBlasts(q)
  <2>1. PICK check : /\ Proceed(q, check, "send", seen[q])
                     /\ groups' = [groups EXCEPT ![q] = IF check = "ok" THEN groups[q] ELSE {}]
    BY <1>11 DEF CountBlasts
  <2>2. /\ inv' = inv /\ wire'[q] = "none" /\ inv[q].do = "blast" /\ seen[q] # Unseen
        /\ ~moved[q] => groups[q] = Audience(seen[q])
        /\ UNCHANGED <<event, guests, moved>>
    BY <1>0, <1>11 DEF CheckedAt, CountBlasts, Ready
  <2>3. CASE check # "ok"
    <3>1. pc'[q] = "done"
      BY <2>1, <2>3 DEF Proceed, End, Typed, TypeOK
    <3> QED BY <2>2, <3>1 DEF CheckedAt, Ready
  <2>4. CASE check = "ok"
    <3>1. pc'[q] = "send" /\ seen'[q] = seen[q]
      BY <2>1, <2>4 DEF Proceed, Goto, Typed, TypeOK
    <3>2. groups'[q] = groups[q]
      BY <2>1, <2>4 DEF Typed, TypeOK
    <3>3. Audience(seen[q])' = Audience(seen[q])
      BY <2>2, <3>1, InfoDepends DEF Audience, ModeStatuses, With
    <3> QED BY <2>2, <3>1, <3>2, <3>3 DEF CheckedAt, Ready
  <2> QED BY <2>3, <2>4
<1>6. CASE Send(q)
  <2>1. /\ pc[q] = "send" /\ pc'[q] = "wait" /\ wire'[q] = "sent"
        /\ UNCHANGED <<event, guests, inv, seen, groups, moved>>
    BY <1>6 DEF Send, Goto, Typed, TypeOK
  <2>2. Audience(seen[q])' = Audience(seen[q]) /\ MergedRange(inv[q].input, seen[q])' = MergedRange(inv[q].input, seen[q])
    BY <2>1 DEF Audience, ModeStatuses, With, MergedRange, MergedStart, MergedEnd
  <2>3. RSVP(inv[q], seen[q], guests[inv[q].account])'
          = RSVP(inv[q], seen[q], guests[inv[q].account])
    BY <2>1, RSVPAgain
  <2> QED BY <1>0, <2>1, <2>2, <2>3 DEF CheckedAt, Ready
<1>7. CASE Land(q) \/ Lose(q)
  <2>1. /\ wire[q] = "sent" /\ wire'[q] \in {"landed", "lost"} /\ pc' = pc /\ inv' = inv
    BY <1>7 DEF Land, Lose, Typed, TypeOK
  <2>2. pc[q] \notin {"event", "guest", "guests", "blasts", "send"}
    BY <1>0, <2>1 DEF CheckedAt
  <2> QED BY <2>1, <2>2 DEF CheckedAt, Ready
<1>8. CASE Receive(q)
  <2>1. pc'[q] = "done" /\ UNCHANGED <<event, guests, inv, seen, groups, wire, moved>>
    BY <1>8 DEF Receive, End, Typed, TypeOK
  <2>2. Audience(seen[q])' = Audience(seen[q]) /\ MergedRange(inv[q].input, seen[q])' = MergedRange(inv[q].input, seen[q])
    BY <2>1 DEF Audience, ModeStatuses, With, MergedRange, MergedStart, MergedEnd
  <2>3. RSVP(inv[q], seen[q], guests[inv[q].account])'
          = RSVP(inv[q], seen[q], guests[inv[q].account])
    BY <2>1, RSVPAgain
  <2> QED BY <1>0, <2>1, <2>2, <2>3 DEF CheckedAt, Ready
<1>9. CASE Meddle
  <2>1. Absent # q
    BY ConstantAssumption
  <2>2. UNCHANGED <<inv, pc, seen, groups, wire>> /\ Outdate(Absent)
    BY <1>9 DEF Meddle
  <2> QED BY <1>0, <2>1, <2>2, CheckedElsewhere
<1>10. CASE Tick
  <2>1. Absent # q
    BY ConstantAssumption
  <2> QED BY <1>0, <1>10, <2>1, CheckedElsewhere DEF Tick
<1> QED BY <1>1, <1>2, <1>3, <1>4, <1>5, <1>6, <1>7, <1>8, <1>9, <1>10, <1>11 DEF Next

(* The inductive invariant: types, views that are current unless marked,   *)
(* and checks passed before anything is sent.                              *)
THEOREM EventInvariant == Spec => [](Typed /\ FieldsSound /\ SeenIsInfo /\ Checked)
<1>1. Init => SeenIsInfo
  BY DEF Init, SeenIsInfo
<1>2. Init => FieldsSound
  BY StartsAssumption DEF Init, FieldsSound
<1> QED BY <1>1, <1>2, TypesInit, TypesStep, FieldsSoundStep, SeenStep, CheckedInit, CheckedStep,
        PTL DEF Spec

(* Only a request that is on its way takes effect.                         *)
LEMMA LandingIsLand ==
  ASSUME Typed, NEW p \in Proc, [Next]_vars, wire[p] = "sent", wire'[p] = "landed"
  PROVE  Land(p)
<1>1. ASSUME NEW q \in Proc, Land(q) PROVE q = p
  BY <1>1 DEF Land, Typed, TypeOK
<1>2. ASSUME NEW q \in Proc, Lose(q) \/ Send(q) PROVE FALSE
  BY <1>2 DEF Lose, Send, Typed, TypeOK
<1>3. ASSUME wire' = wire PROVE FALSE
  BY <1>3
<1> QED BY <1>1, <1>2, <1>3 DEF Next, vars, ReadEvent, ReadGuest, ReadGuests, CountBlasts, Receive, Meddle, Tick

(* No update inverts the range of an event that stayed as it was read.     *)
LEMMA RangeLands ==
  ASSUME Typed, SeenIsInfo, Checked, NEW p \in Proc, Land(p), inv[p].do = "update",
         ~BadRange(event), BadRange(event')
  PROVE  moved[p]
<1> DEFINE input == inv[p].input
<1> SUFFICES ASSUME ~moved[p] PROVE FALSE
  BY DEF Typed, TypeOK
<1>1. seen[p] = Info /\ MergedRange(input, seen[p]) = "ok"
  BY DEF Land, Checked, CheckedAt, Ready, SeenIsInfo
<1>2. seen[p]["startDate"] = event["startDate"] /\ seen[p]["endDate"] = event["endDate"]
  BY <1>1 DEF Info, Fields, Shown
<1>3. event' = Patched(event, input) /\ DOMAIN input \subseteq InputFields
  BY DEF Land, Effect, Typed, Commands, Command
<1>4. /\ event'["startDate"] = ShownAfter(event, input, "start", "startDate")
      /\ event'["endDate"] = ShownAfter(event, input, "end", "endDate")
  <2>1. /\ "start" \in InputFields /\ "startDate" \in FieldPaths("start")
        /\ "end" \in InputFields /\ "endDate" \in FieldPaths("end")
    BY DEF InputFields, FieldPaths
  <2> QED BY <1>3, <2>1, PatchedFields
<1>5. Names(input, "start") \/ Names(input, "end")
  BY <1>4 DEF ShownAfter, BadRange
<1>6. ~Inverted(MergedStart(input, seen[p]), MergedEnd(input, seen[p]))
  BY <1>1, <1>5 DEF MergedRange
<1>7. /\ HasValue(event'["startDate"]) => event'["startDate"] = MergedStart(input, seen[p])
      /\ HasValue(event'["endDate"]) => event'["endDate"] = MergedEnd(input, seen[p])
  BY <1>2, <1>4 DEF ShownAfter, Says, HasValue, MergedStart, MergedEnd
<1> QED BY <1>6, <1>7 DEF BadRange, Inverted

(* The merged range is good for the event as it is, unless it was changed. *)
THEOREM RangeHolds == Spec => RangeBrokenOnlyIfMoved
<1>1. Typed /\ SeenIsInfo /\ Checked /\ [Next]_vars
        => \A p \in Proc : Lands(p, "update") /\ ~BadRange(event) /\ BadRange(event') => moved[p]
  BY LandingIsLand, RangeLands DEF Lands
<1> QED BY <1>1, EventInvariant, PTL DEF Spec, RangeBrokenOnlyIfMoved

(* A blast is addressed to exactly the groups it should reach.             *)
LEMMA AudienceReached ==
  ASSUME Typed, SeenIsInfo, Checked, NEW p \in Proc, Land(p), inv[p].do = "blast", ~moved[p]
  PROVE  /\ \A a \in Accounts : guests[a].status \in ModeStatuses(event)
                                   => guests[a].status \in groups[p]
         /\ \A g \in groups[p] : \E a \in Accounts :
              \/ guests[a].status = g
              \/ g = "invited" /\ guests[a].status = "SENT"
              \/ g = "checkedIn" /\ guests[a].checkedIn
<1>1. seen[p] = Info /\ groups[p] = Audience(seen[p])
  BY DEF Land, Checked, CheckedAt, Ready, SeenIsInfo
<1>2. ModeStatuses(seen[p]) = ModeStatuses(event)
  <2>1. /\ seen[p]["guestAction"] = event["guestAction"]
        /\ seen[p]["findATime"] = event["findATime"]
        /\ seen[p]["enableWaitlist"] = event["enableWaitlist"]
    BY <1>1 DEF Info, Fields, Shown
  <2> QED BY <2>1 DEF ModeStatuses
<1>3. ASSUME NEW a \in Accounts, guests[a].status \in ModeStatuses(event)
      PROVE  guests[a].status \in groups[p]
  BY <1>1, <1>2, <1>3 DEF Audience, With
<1>4. ASSUME Cardinality(With("SENT")) \in 1 .. InviteLimit
      PROVE  \E a \in Accounts : guests[a].status = "SENT"
  <2>1. Cardinality({}) = 0
    BY FS_EmptySet
  <2>2. With("SENT") # {}
    BY <1>4, <2>1, ConstantAssumption
  <2> QED BY <2>2 DEF With
<1>5. ASSUME NEW g \in groups[p]
      PROVE  \E a \in Accounts : \/ guests[a].status = g
                                 \/ g = "invited" /\ guests[a].status = "SENT"
                                 \/ g = "checkedIn" /\ guests[a].checkedIn
  BY <1>1, <1>4, <1>5 DEF Audience, With
<1> QED BY <1>3, <1>5

(* Every group that has somebody in it is addressed, and no other.         *)
THEOREM BlastsReach == Spec => BlastReachesItsAudience
<1>1. Typed /\ SeenIsInfo /\ Checked /\ [Next]_vars
        => \A p \in Proc :
             Lands(p, "blast") /\ ~moved[p] =>
               /\ \A a \in Accounts : guests[a].status \in ModeStatuses(event)
                                        => guests[a].status \in groups[p]
               /\ \A g \in groups[p] : \E a \in Accounts :
                    \/ guests[a].status = g
                    \/ g = "invited" /\ guests[a].status = "SENT"
                    \/ g = "checkedIn" /\ guests[a].checkedIn
  BY LandingIsLand, AudienceReached DEF Lands
<1> QED BY <1>1, EventInvariant, PTL DEF Spec, BlastReachesItsAudience
-----------------------------------------------------------------------------
(* What the remote shows of an event is what holds of it at that moment.   *)
LEMMA InfoShows ==
  /\ \A f \in Fields \ Shown : Info[f] = event[f]
  /\ HasValue(Info["atCapacity"])
       => Info["atCapacity"] = (Limited(event) /\ Taken >= event["maxCapacity"])
  /\ HasValue(Info["hasGuests"]) => Info["hasGuests"] = (GuestCount > 0)
  /\ HasValue(Info["guestCount"]) => Info["guestCount"] = GuestCount
  /\ HasValue(Info["remainingCapacity"])
       => Limited(event) /\ Info["remainingCapacity"] = event["maxCapacity"] - Taken
<1>1. \A f \in Fields : Info[f] = IF f \in Shown /\ HasValue(event[f]) THEN Derived(f) ELSE event[f]
  BY DEF Info
<1>2. \A f \in Fields \ Shown : Info[f] = event[f]
  BY <1>1
<1>3. ASSUME NEW f \in Shown, HasValue(Info[f]) PROVE Info[f] = Derived(f)
  BY <1>1, <1>3 DEF Fields
<1>4. /\ Derived("atCapacity") = (Limited(event) /\ Taken >= event["maxCapacity"])
      /\ Derived("hasGuests") = (GuestCount > 0)
      /\ Derived("guestCount") = GuestCount
      /\ Derived("remainingCapacity") = IF Limited(event) THEN event["maxCapacity"] - Taken ELSE Absent
  BY DEF Derived
<1>5. {"atCapacity", "hasGuests", "guestCount", "remainingCapacity"} \subseteq Shown
  BY DEF Shown
<1>6. HasValue(Info["remainingCapacity"])
        => Limited(event) /\ Info["remainingCapacity"] = event["maxCapacity"] - Taken
  BY <1>3, <1>4, <1>5 DEF HasValue
<1> QED BY <1>2, <1>3, <1>4, <1>5, <1>6

(* A number that has a value is one.                                       *)
LEMMA ValuesAreNumbers ==
  ASSUME FieldsSound, NEW f \in Numbers, HasValue(event[f])
  PROVE  event[f] \in Int
<1>1. f \in Fields
  BY DEF Numbers, Fields
<1> QED BY <1>1 DEF FieldsSound, Sound, HasValue

(* An accepted party leaves the event within its capacity.                 *)
LEMMA PartyLands ==
  ASSUME Typed, FieldsSound, SeenIsInfo, Checked, NEW p \in Proc, Land(p),
         inv[p].do = "rsvp", inv[p].intent = "going", ~moved[p]
  PROVE  /\ ~Overfull'
         /\ HasValue(event["maxCountPerGuest"])
              => guests'[inv[p].account].count <= event["maxCountPerGuest"]
<1> DEFINE c == inv[p]
           mine == guests[c.account]
           limit == event["maxCapacity"]
<1>1. seen[p] = Info /\ RSVP(c, Info, mine) = "ok"
  BY DEF Land, Checked, CheckedAt, Ready, SeenIsInfo
<1>2. c.party \in Nat /\ c.account \in Accounts /\ mine \in Guest
  BY DEF Typed, TypeOK, Commands, Command
<1>3. /\ event' = event
      /\ guests' = [guests EXCEPT ![c.account] = Responded(mine, c)]
  BY DEF Land, Effect
<1>4. Responded(mine, c) \in Guest /\ Responded(mine, c).count = c.party
      /\ Responded(mine, c).status = "GOING"
  BY <1>2 DEF Responded, RSVPStatus, Guest, Statuses
<1>5. ~RSVPDrift(Info) /\ ~NoRoom(c, Info, mine)
  BY <1>1 DEF RSVP
<1>6. HasValue(Info["atCapacity"]) /\ ~Info["atCapacity"]
  BY <1>5 DEF RSVPDrift, NoRoom
<1>7. ~(Limited(event) /\ Taken >= limit)
  BY <1>6, InfoShows
<1>8. /\ Info["maxCapacity"] = limit
      /\ Info["maxCountPerGuest"] = event["maxCountPerGuest"]
  BY InfoShows DEF Fields, Shown
<1>9. ~Overfull'
  <2>1. Limited(event)' = Limited(event)
    BY <1>3 DEF Limited, HasValue
  <2>2. SUFFICES ASSUME Limited(event) PROVE ~(Taken' > limit)
    BY <1>3, <2>1 DEF Overfull
  <2>3. limit \in Int
    BY <2>2, ValuesAreNumbers DEF Limited, Numbers
  <2>4. /\ HasValue(Info["remainingCapacity"])
        /\ ~(AdditionalCount(c.party, mine) > Info["remainingCapacity"])
    BY <1>5, <1>8, <2>2 DEF NoRoom, Limited
  <2>5. ~(AdditionalCount(c.party, mine) > limit - Taken)
    BY <2>4, InfoShows
  <2>6. Counted(Responded(mine, c)) = c.party
    BY <1>4 DEF Counted, Attends
  <2>7. /\ Taken \in Nat /\ Counted(mine) \in Nat
        /\ Taken' = Taken - Counted(mine) + c.party
    BY <1>2, <1>3, <1>4, <2>6, TakenChanges
  <2> QED BY <1>2, <2>2, <2>3, <2>5, <2>7, <1>7 DEF AdditionalCount
<1>10. ASSUME HasValue(event["maxCountPerGuest"])
       PROVE  guests'[c.account].count <= event["maxCountPerGuest"]
  <2>1. event["maxCountPerGuest"] \in Int
    BY <1>10, ValuesAreNumbers DEF Numbers
  <2>2. ~(c.party > event["maxCountPerGuest"])
    BY <1>5, <1>8, <1>10 DEF NoRoom
  <2>3. guests'[c.account].count = c.party
    BY <1>2, <1>3, <1>4 DEF Typed, TypeOK
  <2> QED BY <1>2, <2>1, <2>2, <2>3
<1> QED BY <1>9, <1>10

(* The room is there for every accepted party, unless the event or its     *)
(* guests changed after they were read.                                    *)
THEOREM RoomHolds == Spec => OverfullOnlyIfMoved
<1>1. Typed /\ FieldsSound /\ SeenIsInfo /\ Checked /\ [Next]_vars
        => \A p \in Proc :
             Lands(p, "rsvp") /\ inv[p].intent = "going" /\ ~moved[p]
               => /\ ~Overfull'
                  /\ HasValue(event["maxCountPerGuest"])
                       => guests'[inv[p].account].count <= event["maxCountPerGuest"]
  BY LandingIsLand, PartyLands DEF Lands
<1> QED BY <1>1, EventInvariant, PTL DEF Spec, OverfullOnlyIfMoved
-----------------------------------------------------------------------------
(* Refusals: what a check says of the event as it is shown is so of the    *)
(* event as it is.                                                         *)
Refused == {"state.conflict", "input.invalid"}

LEMMA UpdateRefuses ==
  ASSUME Typed, NEW c, Command(c), c.do = "update", Decodes(Info), Update(c, Info) \in Refused
  PROVE  ~Movable(c)
<1> DEFINE input == c.input
           after == Patched(event, input)
<1>1. \A f \in {"startDate", "endDate", "ticketing"} : Info[f] = event[f]
  BY InfoShows DEF Fields, Shown
<1>2. /\ after["startDate"] = ShownAfter(event, input, "start", "startDate")
      /\ after["endDate"] = ShownAfter(event, input, "end", "endDate")
  <2>1. /\ "start" \in InputFields /\ "startDate" \in FieldPaths("start")
        /\ "end" \in InputFields /\ "endDate" \in FieldPaths("end")
    BY DEF InputFields, FieldPaths
  <2> QED BY <2>1, PatchedFields DEF Command
<1>3. ASSUME MergedRange(input, Info) \in Refused
      PROVE  Inverted(after["startDate"], after["endDate"])
  <2>1. Inverted(MergedStart(input, Info), MergedEnd(input, Info))
    BY <1>3 DEF MergedRange, Refused
  <2>2. /\ HasValue(MergedStart(input, Info)) => after["startDate"] = MergedStart(input, Info)
        /\ HasValue(MergedEnd(input, Info)) => after["endDate"] = MergedEnd(input, Info)
    BY <1>1, <1>2 DEF ShownAfter, Says, HasValue, MergedStart, MergedEnd
  <2> QED BY <2>1, <2>2 DEF Inverted
<1>4. ASSUME UpdatePreconditions(input, Info) \in Refused
      PROVE  /\ Timed(input)
             /\ HasValue(event["ticketing"]) \/ (GuestCount # 0 /\ LongOver(event))
  <2>1. /\ Timed(input) /\ Info["hasGuests"] # Absent
        /\ HasValue(Info["ticketing"]) \/ (Info["hasGuests"] /\ LongOver(Info))
    BY <1>4 DEF UpdatePreconditions, Refused
  <2>2. Info["hasGuests"] # Null
    BY DEF Decodes, Fields, Shown, Nullable
  <2>3. Info["hasGuests"] = (GuestCount > 0)
    BY <2>1, <2>2, InfoShows DEF HasValue
  <2>4. LongOver(Info) => LongOver(event)
    BY <1>1 DEF LongOver
  <2>5. ASSUME Info["hasGuests"] PROVE GuestCount # 0
    <3>1. GuestCount > 0
      BY <2>3, <2>5
    <3> QED BY <3>1
  <2> QED BY <1>1, <2>1, <2>4, <2>5
<1>5. MergedRange(input, Info) \in Refused \/ UpdatePreconditions(input, Info) \in Refused
  BY DEF Update, Refused
<1> QED BY <1>3, <1>4, <1>5 DEF Movable

LEMMA CancelRefuses ==
  ASSUME Typed, FieldsSound, NEW c, Decodes(Info), Cancel(c, Info) \in Refused
  PROVE  ~Cancellable
<1>1. Info["status"] = event["status"] /\ Info["startDate"] = event["startDate"]
  BY InfoShows DEF Fields, Shown
<1>2. \/ Info["status"] # "PUBLISHED"
      \/ HasValue(Info["guestCount"]) /\ Info["guestCount"] <= 0
      \/ Info["startDate"] # Absent /\ Info["startDate"] <= now
  BY DEF Cancel, Refused
<1>3. CASE Info["status"] # "PUBLISHED"
  BY <1>1, <1>3 DEF Cancellable
<1>4. CASE HasValue(Info["guestCount"]) /\ Info["guestCount"] <= 0
  BY <1>4, InfoShows, CountsAreNaturals DEF Cancellable
<1>5. CASE Info["startDate"] # Absent /\ Info["startDate"] <= now
  <2>1. Info["startDate"] # Null
    BY DEF Decodes, Fields, Shown, Nullable
  <2>2. event["startDate"] \in Int /\ now \in Int
    BY <1>1, <1>5, <2>1, ValuesAreNumbers, ConstantAssumption DEF HasValue, Numbers, Typed, TypeOK
  <2> QED BY <1>1, <1>5, <2>2 DEF Cancellable
<1> QED BY <1>2, <1>3, <1>4, <1>5

LEMMA BlastRefuses ==
  ASSUME Typed, BlastPreconditions(Info, Audience(Info), blasts) \in Refused
  PROVE  ~Blastable \/ blasts = BlastLimit
<1>1. \A f \in {"startDate", "endDate", "guestAction", "findATime", "enableWaitlist"} : Info[f] = event[f]
  BY InfoShows DEF Fields, Shown
<1>2. Expired(Info) \/ Audience(Info) = {} \/ blasts >= BlastLimit
  BY DEF BlastPreconditions, Refused
<1>3. CASE Expired(Info)
  BY <1>1, <1>3 DEF Expired, Blastable
<1>4. CASE Audience(Info) = {}
  <2>1. ModeStatuses(Info) = ModeStatuses(event)
    BY <1>1 DEF ModeStatuses
  <2>2. \A a \in Accounts : guests[a].status \notin ModeStatuses(event) /\ ~guests[a].checkedIn
    BY <1>4, <2>1 DEF Audience, With
  <2>3. Cardinality(With("SENT")) \notin 1 .. InviteLimit
    BY <1>4 DEF Audience
  <2> QED BY <2>2, <2>3 DEF Blastable, With
<1>5. CASE blasts >= BlastLimit
  <2>1. blasts \in Nat /\ BlastLimit \in Nat
    BY ConstantAssumption DEF Typed, TypeOK
  <2> QED BY <1>5, <2>1 DEF Blastable
<1> QED BY <1>2, <1>3, <1>4, <1>5

LEMMA NoRoomForAParty ==
  ASSUME Typed, FieldsSound, NEW c, Command(c), c.do = "rsvp", c.intent # "interested",
         ~RSVPDrift(Info), NoRoom(c, Info, guests[c.account])
  PROVE  ~Welcome(c)
<1> DEFINE mine == guests[c.account]
           limit == event["maxCapacity"]
<1>1. /\ Info["maxCapacity"] = limit
      /\ Info["maxCountPerGuest"] = event["maxCountPerGuest"]
  BY InfoShows DEF Fields, Shown
<1>2. c.party \in Nat /\ Counted(mine) \in Nat /\ Taken \in Nat
  BY CountsAreNaturals DEF Command, Counted, Typed, TypeOK, Guest
<1>3. CASE HasValue(Info["maxCountPerGuest"]) /\ c.party > Info["maxCountPerGuest"]
  <2>1. event["maxCountPerGuest"] \in Int
    BY <1>1, <1>3, ValuesAreNumbers DEF Numbers
  <2> QED BY <1>1, <1>2, <1>3, <2>1 DEF Welcome
<1>4. CASE Limited(Info) /\ ~HasValue(Info["remainingCapacity"])
  <2>1. Limited(event)
    BY <1>1, <1>4 DEF Limited
  <2>2. limit - Taken \in Int
    BY <1>2, <2>1, ValuesAreNumbers DEF Limited, Numbers
  <2>3. HasValue(limit - Taken)
    BY <2>2, ConstantAssumption DEF HasValue
  <2>4. HasValue(event["remainingCapacity"]) => Info["remainingCapacity"] = limit - Taken
    BY <2>1 DEF Info, Derived, Fields, Shown
  <2> QED BY <1>4, <2>1, <2>3, <2>4 DEF Welcome
<1>5. CASE c.intent = "going" /\ Info["atCapacity"]
  <2>1. HasValue(Info["atCapacity"])
    BY DEF RSVPDrift
  <2>2. Limited(event) /\ Taken >= limit
    BY <1>5, <2>1, InfoShows
  <2>3. limit \in Int
    BY <2>2, ValuesAreNumbers DEF Limited, Numbers
  <2> QED BY <1>2, <1>5, <2>2, <2>3 DEF Welcome, PartyFits
<1>6. CASE /\ c.intent = "going" /\ HasValue(Info["remainingCapacity"])
           /\ AdditionalCount(c.party, mine) > Info["remainingCapacity"]
  <2>1. Limited(event) /\ AdditionalCount(c.party, mine) > limit - Taken
    BY <1>6, InfoShows
  <2>2. limit \in Int
    BY <2>1, ValuesAreNumbers DEF Limited, Numbers
  <2>3. \/ ~(Taken < limit)
        \/ ~(Taken + c.party - Counted(mine) <= limit)
    BY <1>2, <2>1, <2>2 DEF AdditionalCount
  <2> QED BY <1>6, <2>1, <2>3 DEF Welcome, PartyFits
<1> QED BY <1>3, <1>4, <1>5, <1>6 DEF NoRoom

LEMMA WrongAnswers ==
  ASSUME FieldsSound, NEW c, Command(c), Questionnaire(c, Info) \in Refused
  PROVE  ~RightAnswers(c)
<1>1. /\ Info["questionnaireEnabled"] = event["questionnaireEnabled"]
      /\ Info["questionnaireVersions"] = event["questionnaireVersions"]
  BY InfoShows DEF Fields, Shown
<1>2. Asks(Info) <=> event["questionnaireEnabled"] = TRUE
  <2>1. event["questionnaireEnabled"] \in BOOLEAN \cup {Absent, Null}
    BY DEF FieldsSound, Sound, Fields
  <2>2. Absent # TRUE /\ Null # TRUE
    BY ConstantAssumption
  <2>3. Asks(Info) <=> HasValue(event["questionnaireEnabled"]) /\ event["questionnaireEnabled"]
    BY <1>1 DEF Asks
  <2>4. CASE event["questionnaireEnabled"] \in {Absent, Null}
    BY <2>2, <2>3, <2>4 DEF HasValue
  <2>5. CASE event["questionnaireEnabled"] = TRUE
    BY <2>2, <2>3, <2>5 DEF HasValue
  <2>6. CASE event["questionnaireEnabled"] = FALSE
    BY <2>3, <2>6
  <2> QED BY <2>1, <2>4, <2>5, <2>6
<1>3. CASE ~Asks(Info)
  BY <1>2, <1>3 DEF Questionnaire, RightAnswers, Refused
<1>4. CASE Asks(Info)
  <2>1. NoQuestions(Info) \/ c.response # Info["questionnaireVersions"] - 1
    BY <1>4 DEF Questionnaire, Refused
  <2>2. CASE Info["questionnaireVersions"] = Null
    BY <1>1, <1>2, <1>4, <2>2 DEF RightAnswers, HasValue
  <2>3. CASE Info["questionnaireVersions"] = 0
    <3>1. c.response # 0 - 1
      BY ConstantAssumption DEF Command
    <3> QED BY <1>1, <1>2, <1>4, <2>3, <3>1 DEF RightAnswers
  <2>4. CASE c.response # Info["questionnaireVersions"] - 1
    BY <1>1, <1>2, <1>4, <2>4 DEF RightAnswers
  <2> QED BY <2>1, <2>2, <2>3, <2>4 DEF NoQuestions
<1> QED BY <1>3, <1>4

LEMMA RSVPRefuses ==
  ASSUME Typed, FieldsSound, NEW c, Command(c), c.do = "rsvp",
         RSVP(c, Info, guests[c.account]) \in Refused
  PROVE  ~Welcome(c)
<1>1. ~RSVPDrift(Info)
  BY DEF RSVP, Refused
<1>2. CASE RSVPClosed(Info)
  <2>1. \A f \in {"rsvpsEnabled", "guestAction", "ticketing", "password"} : Info[f] = event[f]
    BY InfoShows DEF Fields, Shown
  <2> QED BY <1>2, <2>1 DEF RSVPClosed, Welcome
<1>3. CASE c.intent # "interested" /\ NoRoom(c, Info, guests[c.account])
  BY <1>1, <1>3, NoRoomForAParty
<1>4. CASE c.intent = "going" /\ Questionnaire(c, Info) \in Refused
  BY <1>4, WrongAnswers DEF Welcome
<1> QED BY <1>2, <1>3, <1>4 DEF RSVP, Refused

LEMMA CallsDoNotRefuse ==
  /\ \A reply : /\ GetEventInfo(reply) \notin Refused
                /\ GetCurrentGuest(reply) \notin Refused
                /\ ListEventGuests(reply) \notin Refused
                /\ CountTextBlasts(reply) \notin Refused
  /\ \A c, reply : Completion(c, reply) \notin Refused
<1>1. \A reply, accepted : Judge(reply, accepted) \notin Refused
  BY DEF Judge, Refused
<1>2. "resource.not_found" \notin Refused
  BY DEF Refused
<1> QED BY <1>1, <1>2 DEF GetEventInfo, GetCurrentGuest, ListEventGuests, CountTextBlasts,
        Completion, FirestorePatchEvent, CancelEvent, CreateTextBlast, MarkEventInterest, AddGuest

(* An invocation that answers has just ended.                              *)
LEMMA AnswersAreEnds ==
  ASSUME Typed, NEW p \in Proc, NEW q \in Proc, answer'[p] # answer[p]
  PROVE  /\ \A a : End(q, a) => q = p /\ answer'[p] = a
         /\ \A check, point, view :
              Proceed(q, check, point, view) => q = p /\ answer'[p] = check
<1>1. \A a : End(q, a) => q = p /\ answer'[p] = a
  BY DEF End, Typed, TypeOK
<1>2. \A check, point, view :
        Proceed(q, check, point, view) => q = p /\ answer'[p] = check
  BY <1>1 DEF Proceed, Goto
<1> QED BY <1>1, <1>2

LEMMA RefusalStep ==
  ASSUME Typed, FieldsSound, SeenIsInfo, Checked, [Next]_vars, NEW p \in Proc,
         answer'[p] # answer[p], answer'[p] \in Refused, ~moved[p]
  PROVE  ~Fit(inv[p]) \/ AtBlastLimit(inv[p])
<1> DEFINE c == inv[p]
<1>1. Command(c) /\ CheckedAt(p)
  BY DEF Typed, Commands, Checked
<1>2. CASE \E q \in Proc : ReadEvent(q)
  <2>1. PICK q \in Proc : ReadEvent(q)
    BY <1>2
  <2>2. PICK reply \in Replies :
          Proceed(q, IF GetEventInfo(reply) # "ok" THEN GetEventInfo(reply)
                     ELSE AfterEvent(inv[q], Info), AfterEventPoint(inv[q]), Info)
    BY <2>1 DEF ReadEvent
  <2>3. q = p /\ answer'[p] = IF GetEventInfo(reply) # "ok" THEN GetEventInfo(reply)
                              ELSE AfterEvent(inv[q], Info)
    BY <2>2, AnswersAreEnds
  <2>4. AfterEvent(c, Info) \in Refused
    BY <2>3, CallsDoNotRefuse
  <2>5. Decodes(Info) /\ \/ c.do = "update" /\ Update(c, Info) \in Refused
                         \/ c.do = "cancel" /\ Cancel(c, Info) \in Refused
    BY <2>4 DEF AfterEvent, Refused
  <2>6. CASE c.do = "update" /\ Update(c, Info) \in Refused
    BY <1>1, <2>5, <2>6, UpdateRefuses DEF Fit
  <2>7. CASE c.do = "cancel" /\ Cancel(c, Info) \in Refused
    BY <2>5, <2>7, CancelRefuses DEF Fit
  <2> QED BY <2>5, <2>6, <2>7
<1>3. CASE \E q \in Proc : ReadGuest(q)
  <2>1. PICK q \in Proc : ReadGuest(q)
    BY <1>3
  <2>2. PICK reply \in Replies :
          Proceed(q, IF GetCurrentGuest(reply) # "ok" THEN GetCurrentGuest(reply)
                     ELSE RSVP(inv[q], seen[q], guests[inv[q].account]), "send", seen[q])
    BY <2>1 DEF ReadGuest
  <2>3. q = p /\ answer'[p] = IF GetCurrentGuest(reply) # "ok" THEN GetCurrentGuest(reply)
                              ELSE RSVP(inv[q], seen[q], guests[inv[q].account])
    BY <2>2, AnswersAreEnds
  <2>4. c.do = "rsvp" /\ seen[p] = Info
    BY <1>1, <2>1, <2>3 DEF ReadGuest, CheckedAt, SeenIsInfo
  <2>5. RSVP(c, Info, guests[c.account]) \in Refused
    BY <2>3, <2>4, CallsDoNotRefuse
  <2> QED BY <1>1, <2>4, <2>5, RSVPRefuses DEF Fit
<1>4. CASE \E q \in Proc : ReadGuests(q)
  <2>1. PICK q \in Proc : ReadGuests(q)
    BY <1>4
  <2>2. PICK reply \in Replies : Proceed(q, ListEventGuests(reply), "blasts", seen[q])
    BY <2>1 DEF ReadGuests
  <2>3. answer'[p] = ListEventGuests(reply)
    BY <2>2, AnswersAreEnds
  <2> QED BY <2>3, CallsDoNotRefuse
<1>7. CASE \E q \in Proc : CountBlasts(q)
  <2>1. PICK q \in Proc : CountBlasts(q)
    BY <1>7
  <2>2. PICK reply \in Replies :
          Proceed(q, IF CountTextBlasts(reply) # "ok" THEN CountTextBlasts(reply)
                     ELSE BlastPreconditions(seen[q], groups[q], blasts), "send", seen[q])
    BY <2>1 DEF CountBlasts
  <2>3. q = p /\ answer'[p] = IF CountTextBlasts(reply) # "ok" THEN CountTextBlasts(reply)
                              ELSE BlastPreconditions(seen[q], groups[q], blasts)
    BY <2>2, AnswersAreEnds
  <2>4. c.do = "blast" /\ seen[p] = Info /\ groups[p] = Audience(Info)
    BY <1>1, <2>1, <2>3 DEF CountBlasts, CheckedAt, Ready, SeenIsInfo
  <2>5. BlastPreconditions(Info, Audience(Info), blasts) \in Refused
    BY <2>3, <2>4, CallsDoNotRefuse
  <2> QED BY <2>4, <2>5, BlastRefuses DEF Fit, AtBlastLimit
<1>5. CASE \E q \in Proc : Receive(q)
  <2>1. PICK q \in Proc : Receive(q)
    BY <1>5
  <2>2. PICK reply \in Replies :
          End(q, IF Completion(inv[q], reply) = "ok" THEN "submitted" ELSE Completion(inv[q], reply))
    BY <2>1 DEF Receive
  <2>3. answer'[p] \in {"submitted", Completion(inv[q], reply)}
    BY <2>2, AnswersAreEnds
  <2> QED BY <2>3, CallsDoNotRefuse DEF Refused
<1>6. CASE answer' = answer
  BY <1>6
<1> QED BY <1>2, <1>3, <1>4, <1>5, <1>6, <1>7 DEF Next, vars, Send, Goto, Land, Lose, Meddle, Tick

(* Nobody is turned away for nothing: a refusal names a condition of the   *)
(* contract that the event does not meet, unless it changed between the    *)
(* reads, or it is a blast with exactly BlastLimit sent before it, which   *)
(* the contract admits and the code refuses.                               *)
THEOREM RefusalsHold == Spec => RefusalIsDeserved
<1>1. Typed /\ FieldsSound /\ SeenIsInfo /\ Checked /\ [Next]_vars
        => \A p \in Proc :
             answer'[p] # answer[p] /\ answer'[p] \in {"state.conflict", "input.invalid"}
               => moved[p] \/ ~Fit(inv[p]) \/ AtBlastLimit(inv[p])
  BY RefusalStep DEF Refused, Typed, TypeOK
<1> QED BY <1>1, EventInvariant, PTL DEF Spec, RefusalIsDeserved
=============================================================================
