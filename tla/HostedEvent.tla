------------------------------ MODULE HostedEvent ------------------------------
(***************************************************************************)
(* One event on the remote, and the invocations that write to it: updates, *)
(* cancellations, RSVPs and text blasts.  Mutation says when an invocation *)
(* acquires its session, previews, asks and answers; here is what it reads *)
(* of the event, what its preconditions compute from that, and what its    *)
(* one request then does to an event, its guests and a clock that have     *)
(* gone on meanwhile (internal/app: event_write.go, rsvp_set.go,           *)
(* blasts.go; internal/remote: events.go, event_writes.go, rsvp.go,        *)
(* blasts.go).                                                             *)
(***************************************************************************)
EXTENDS Integers, FiniteSets

CONSTANTS
  Proc,              \* the invocations
  Starts,            \* the situations they start in
  Accounts,          \* the accounts that may be guests
  Host,              \* the account that created the event
  Absent, Null,      \* a field that is not there, a field that is null
  Values,            \* Values[f]: what others may make of field f
  Guests,            \* what others may make of a guest
  EndGrace, StartGrace,    \* how long after its end, or after its start when it
                           \* has no end, an event can still be moved (2h, 8h)
  BlastSpan, BlastGrace,   \* what stands for a missing end, and how long after
                           \* the end a blast may go out (6 hours, 67 days)
  InviteLimit,       \* the invited group is left out when larger (100)
  BlastLimit,        \* an event with so many text blasts gets no other one (10)
  MaxTime, MaxMeddle \* bounds of the clock and of the changes made by others

(* What others decide of an event, and what the remote may show of its     *)
(* guests.  The fields named are those the commands decide by or write;    *)
(* timezone stands for the ones that are only written, and are there, and  *)
(* description for the ones that can be cleared (links, image).            *)
Shown == {"atCapacity", "remainingCapacity", "guestCount", "hasGuests"}
Fields == Shown \cup
  {"startDate", "endDate", "timezone", "description", "maxCapacity", "enableWaitlist",
   "status", "ownerIds", "ticketing", "guestAction", "rsvpsEnabled", "password",
   "maxCountPerGuest", "questionnaireEnabled", "questionnaireVersions", "findATime"}

(* Statuses of a guest; SENT stands for all five of an invited one.        *)
ApplyStatuses == {"APPROVED", "PENDING_APPROVAL", "WAITLISTED_FOR_APPROVAL", "WITHDRAWN",
                  "REJECTED"}
Statuses == {"none", "SENT", "GOING", "MAYBE", "DECLINED", "WAITLIST", "INTERESTED",
             "RESPONDED_TO_FIND_A_TIME"} \cup ApplyStatuses
Guest == [status: Statuses, count: Nat, checkedIn: BOOLEAN]
NoGuest == [status |-> "none", count |-> 0, checkedIn |-> FALSE]

(* The state the decoder gives a field, and the values it lets through: a  *)
(* number and a switch are typed (internal/remote/events.go).              *)
HasValue(v) == v # Absent /\ v # Null
Numbers == {"startDate", "endDate", "maxCapacity", "maxCountPerGuest", "questionnaireVersions"}
Sound(f, v) ==
  /\ f \in Numbers => v \in Int \cup {Absent, Null}
  /\ f = "questionnaireEnabled" => v \in BOOLEAN \cup {Absent, Null}

(* The product's fields of an update and the event fields they stand for;  *)
(* an input is a function on some of them, and null clears a field.        *)
InputFields == {"start", "end", "timezone", "description", "guestLimit"}
FieldPaths(f) ==
  IF f = "start" THEN {"startDate"}
  ELSE IF f = "end" THEN {"endDate"}
  ELSE IF f = "guestLimit" THEN {"enableWaitlist", "maxCapacity"}
  ELSE {f}
Names(input, f) == f \in DOMAIN input

(* An event that was not read yet, or is not needed any more. *)
Unseen == [f \in {} |-> f]

ASSUME ConstantAssumption ==
  /\ Absent # Null /\ Absent \notin Proc
  /\ \A v \in {Absent, Null} : v \notin BOOLEAN /\ v \notin Int
  /\ IsFiniteSet(Accounts)
  /\ InviteLimit \in Nat /\ BlastLimit \in Nat /\ MaxTime \in Nat /\ MaxMeddle \in Nat
  /\ DOMAIN Values \subseteq Fields /\ Guests \subseteq Guest
  /\ \A f \in DOMAIN Values : \A v \in Values[f] : Sound(f, v)

(* A command that passed the checks of its input: an update names fields,  *)
(* an RSVP is for one account, and answers one version of the questions.   *)
Command(c) ==
  /\ c.party \in Nat /\ c.response \in Nat \cup {Absent}
  /\ DOMAIN c.input \subseteq InputFields
  /\ \A f \in DOMAIN c.input \cap {"start", "end", "guestLimit"} : c.input[f] \in Int \cup {Null}
  /\ c.do # "update" => DOMAIN c.input = {}
  /\ c.do = "rsvp" => c.account \in Accounts

ASSUME StartsAssumption ==
  \A start \in Starts :
    /\ DOMAIN start.event = Fields
    /\ \A f \in Fields : Sound(f, start.event[f])
    /\ start.guests \in [Accounts -> Guest]
    /\ DOMAIN start.inv = Proc
    /\ \A p \in Proc : Command(start.inv[p])
    /\ start.blasts \in Nat
    /\ start.meddled \in 0 .. MaxMeddle

VARIABLES
  event,    \* the event's fields
  guests,   \* guests[a]: the guest that account a is
  blasts,   \* the number of text blasts among the event's host messages
  now,      \* the clock
  inv,      \* inv[p]: what p was asked to do, and for which account
  pc,       \* pc[p]: where p is
  seen,     \* seen[p]: the event as p read it
  groups,   \* groups[p]: the groups p's blast is addressed to
  wire,     \* wire[p]: p's request
  answer,   \* answer[p]: how p ended
  meddled,  \* the number of changes made by others
  writer,   \* history: writer[f] is the last invocation whose input names f
  moved     \* history: the event or its guests have changed since p read them

vars == <<event, guests, blasts, now, inv, pc, seen, groups, wire, answer, meddled, writer, moved>>

-----------------------------------------------------------------------------
(* What getEventInfo shows: the fields, and what the remote derives from   *)
(* the guests.                                                             *)
Attends(g) == g.status \in {"GOING", "APPROVED"}
Counted(g) == IF Attends(g) THEN g.count ELSE 0
Places == UNION {{a} \X (1 .. Counted(guests[a])) : a \in Accounts}
Taken == Cardinality(Places)
GuestCount == Cardinality({a \in Accounts : guests[a] # NoGuest})

Limited(e) == HasValue(e["maxCapacity"])
Derived(f) ==
  IF f = "atCapacity" THEN Limited(event) /\ Taken >= event["maxCapacity"]
  ELSE IF f = "guestCount" THEN GuestCount
  ELSE IF f = "hasGuests" THEN GuestCount > 0
  ELSE IF Limited(event) THEN event["maxCapacity"] - Taken ELSE Absent
Info == [f \in Fields |-> IF f \in Shown /\ HasValue(event[f]) THEN Derived(f) ELSE event[f]]

(* The fields that the decoder lets be null. *)
Nullable == {"endDate", "maxCapacity", "enableWaitlist", "ticketing", "password",
             "questionnaireVersions", "findATime", "guestCount", "description"}
Decodes(e) == \A f \in Fields \ Nullable : e[f] # Null

(* What each call makes of an answer, told by the first thing that is      *)
(* wrong with it.  A completion without a value is enough for cancelling   *)
(* and for adding a guest.                                                 *)
Replies == {"complete", "empty", "no response", "torn", "not found", "drifted"}
Judge(reply, accepted) ==
  IF reply \in accepted THEN "ok"
  ELSE IF reply \in {"no response", "torn"} THEN "remote.unavailable"
  ELSE "contract.protocol_changed"

GetEventInfo(reply) ==
  IF reply = "not found" THEN "resource.not_found" ELSE Judge(reply, {"complete"})
GetCurrentGuest(reply) == Judge(reply, {"complete"})
ListEventGuests(reply) == Judge(reply, {"complete"})
CountTextBlasts(reply) == Judge(reply, {"complete"})
FirestorePatchEvent(reply) == Judge(reply, {"complete"})
CancelEvent(reply) == Judge(reply, {"complete", "empty"})
AddGuest(reply) == Judge(reply, {"complete", "empty"})
MarkEventInterest(reply) == Judge(reply, {"complete"})
CreateTextBlast(reply) == Judge(reply, {"complete"})

Completion(c, reply) ==
  IF c.do = "update" THEN FirestorePatchEvent(reply)
  ELSE IF c.do = "cancel" THEN CancelEvent(reply)
  ELSE IF c.do = "blast" THEN CreateTextBlast(reply)
  ELSE IF c.intent = "interested" THEN MarkEventInterest(reply)
  ELSE AddGuest(reply)

-----------------------------------------------------------------------------
(* The checks: "ok", or the failure.                                       *)
Hosts(account, e) == HasValue(e["ownerIds"]) /\ account \in e["ownerIds"]

(* The range an update would leave, from its input and what was read.      *)
MergedStart(input, e) == IF Names(input, "start") THEN input["start"] ELSE e["startDate"]
EndOfInput(input, e) ==                                                  \* mutant
  IF Names(input, "end") THEN input["end"] ELSE Null
MergedEnd(input, e) == IF Names(input, "end") THEN input["end"] ELSE e["endDate"]
Inverted(start, end) == HasValue(start) /\ HasValue(end) /\ end < start

MergedRange(input, e) ==
  IF ~Names(input, "start") /\ ~Names(input, "end") THEN "ok"
  ELSE IF MergedStart(input, e) = Absent THEN "contract.protocol_changed"
  ELSE IF Inverted(MergedStart(input, e), MergedEnd(input, e)) THEN "input.invalid"
  ELSE "ok"

(* Moving an event in time: not a ticketed one, and one with guests only   *)
(* until some time after it, by the times it has now.                      *)
Timed(input) == \E f \in {"start", "end", "timezone"} : Names(input, f)
LongOver(e) ==
  now > IF HasValue(e["endDate"]) THEN e["endDate"] + EndGrace ELSE e["startDate"] + StartGrace

UpdatePreconditions(input, e) ==
  IF ~Timed(input) THEN "ok"
  ELSE IF e["hasGuests"] = Absent THEN "contract.protocol_changed"
  ELSE IF HasValue(e["ticketing"]) THEN "state.conflict"
  ELSE IF ~e["hasGuests"] THEN "ok"
  ELSE IF e["startDate"] = Absent THEN "contract.protocol_changed"
  ELSE IF LongOver(e) THEN "state.conflict"
  ELSE "ok"

Update(c, e) ==
  IF ~Hosts(c.account, e) THEN "permission.denied"
  ELSE IF MergedRange(c.input, e) # "ok" THEN MergedRange(c.input, e)
  ELSE UpdatePreconditions(c.input, e)

Cancel(c, e) ==
  IF e["ownerIds"] = Absent THEN "contract.protocol_changed"
  ELSE IF ~Hosts(c.account, e) THEN "permission.denied"
  ELSE IF e["status"] = Absent THEN "contract.protocol_changed"
  ELSE IF e["status"] # "PUBLISHED" THEN "state.conflict"
  ELSE IF ~HasValue(e["guestCount"]) THEN "contract.protocol_changed"
  ELSE IF e["guestCount"] <= 0 THEN "state.conflict"
  ELSE IF e["startDate"] = Absent THEN "contract.protocol_changed"
  ELSE IF e["startDate"] <= now THEN "state.conflict"
  ELSE "ok"

(* An RSVP.  The room a party needs is what it adds to the party of this   *)
(* account that is already counted.  rsvpsEnabled stands for               *)
(* plusOneNamesRequired too, password for passwordProtected.               *)
RSVPDrift(e) ==
  \/ \E f \in {"rsvpsEnabled", "atCapacity"} : ~HasValue(e[f])
  \/ e["questionnaireVersions"] = Absent
  \/ e["password"] = Null
  \/ HasValue(e["maxCountPerGuest"]) /\ e["maxCountPerGuest"] < 1
RSVPClosed(e) ==
  \/ ~e["rsvpsEnabled"]
  \/ e["guestAction"] = "APPLY"
  \/ HasValue(e["ticketing"])
  \/ HasValue(e["password"])

CountAnyStatus(party, current) ==                                        \* mutant
  IF party > current.count THEN party - current.count ELSE 0
WholeParty(party, current) == party                                      \* mutant
AdditionalCount(party, current) ==
  IF party > Counted(current) THEN party - Counted(current) ELSE 0

NoRoom(c, e, current) ==
  \/ HasValue(e["maxCountPerGuest"]) /\ c.party > e["maxCountPerGuest"]
  \/ Limited(e) /\ ~HasValue(e["remainingCapacity"])
  \/ /\ c.intent = "going"
     /\ \/ e["atCapacity"]
        \/ /\ HasValue(e["remainingCapacity"])
           /\ AdditionalCount(c.party, current) > e["remainingCapacity"]

Asks(e) == HasValue(e["questionnaireEnabled"]) /\ e["questionnaireEnabled"]
NoQuestions(e) == e["questionnaireVersions"] = Null \/ e["questionnaireVersions"] = 0
Questionnaire(c, e) ==
  IF ~Asks(e) THEN IF c.response = Absent THEN "ok" ELSE "input.invalid"
  ELSE IF NoQuestions(e) THEN "state.conflict"
  ELSE IF c.response = e["questionnaireVersions"] - 1 THEN "ok" ELSE "input.invalid"

RSVP(c, e, current) ==
  IF RSVPDrift(e) THEN "contract.protocol_changed"
  ELSE IF RSVPClosed(e) THEN "state.conflict"
  ELSE IF c.intent = "interested" THEN "ok"
  ELSE IF NoRoom(c, e, current) THEN "state.conflict"
  ELSE IF c.intent = "going" THEN Questionnaire(c, e)
  ELSE "ok"

(* A blast, and whom it is addressed to: by the event read first and the   *)
(* guests read after it.                                                   *)
With(status) == {a \in Accounts : guests[a].status = status}
ModeStatuses(e) ==
  IF e["guestAction"] = "APPLY" THEN ApplyStatuses
  ELSE IF HasValue(e["findATime"]) /\ e["findATime"] THEN {"RESPONDED_TO_FIND_A_TIME"}
  ELSE {"GOING", "MAYBE", "DECLINED"}
         \cup (IF HasValue(e["enableWaitlist"]) /\ e["enableWaitlist"]
               THEN {"WAITLIST"} ELSE {})
WholeMode(e) == ModeStatuses(e)                                          \* mutant
Audience(e) ==
  {s \in ModeStatuses(e) : With(s) # {}}
    \cup (IF Cardinality(With("SENT")) \in 1 .. InviteLimit THEN {"invited"} ELSE {})
    \cup (IF \E a \in Accounts : guests[a].checkedIn THEN {"checkedIn"} ELSE {})

Expired(e) ==
  now > BlastGrace + IF HasValue(e["endDate"]) THEN e["endDate"]
                     ELSE e["startDate"] + BlastSpan

BlastPreconditions(e, toGroups, textBlastCount) ==
  IF e["startDate"] = Absent THEN "contract.protocol_changed"
  ELSE IF Expired(e) THEN "state.conflict"
  ELSE IF e["guestAction"] # "APPLY" /\ e["findATime"] = Absent
       THEN "contract.protocol_changed"
  ELSE IF toGroups = {} \/ textBlastCount >= BlastLimit THEN "state.conflict"
  ELSE "ok"

(* What is checked right after the event is read. *)
AfterEvent(c, e) ==
  IF ~Decodes(e) THEN "contract.protocol_changed"
  ELSE IF c.do = "update" THEN Update(c, e)
  ELSE IF c.do = "cancel" THEN Cancel(c, e)
  ELSE IF c.do = "blast" /\ ~Hosts(c.account, e) THEN "permission.denied"
  ELSE "ok"

-----------------------------------------------------------------------------
(* The requests.  A field that is masked and not written is removed.       *)
MaskOfValues(input) ==                                                   \* mutant
  UNION {FieldPaths(f) : f \in {g \in DOMAIN input : input[g] # Null}}
Mask(input) == UNION {FieldPaths(f) : f \in DOMAIN input}
Written(input, f) ==
  IF f = "startDate" THEN input["start"]
  ELSE IF f = "endDate" THEN input["end"]
  ELSE IF f = "maxCapacity" THEN input["guestLimit"]
  ELSE IF f = "enableWaitlist" THEN IF input["guestLimit"] = Null THEN Null ELSE FALSE
  ELSE input[f]
Replaced(e, input) ==                                                    \* mutant
  [f \in Mask(input) |-> Written(input, f)]
Patched(e, input) ==
  [f \in Fields |-> IF f \notin Mask(input) THEN e[f]
                    ELSE IF Written(input, f) = Null THEN Absent ELSE Written(input, f)]

RSVPStatus(intent) ==
  IF intent = "going" THEN "GOING" ELSE IF intent = "not-going" THEN "DECLINED"
  ELSE "INTERESTED"

Responded(g, c) ==
  [g EXCEPT !.status = RSVPStatus(c.intent),
            !.count = IF c.intent = "interested" THEN g.count ELSE c.party]

(* What the remote does with a request that it accepts. *)
Effect(c) ==
  /\ event' = IF c.do = "update" THEN Patched(event, c.input)
              ELSE IF c.do = "cancel" THEN [event EXCEPT !["status"] = "CANCELED"]
              ELSE event
  /\ guests' = IF c.do # "rsvp" THEN guests
               ELSE [guests EXCEPT ![c.account] = Responded(@, c)]
  /\ blasts' = IF c.do = "blast" THEN blasts + 1 ELSE blasts

-----------------------------------------------------------------------------
(* An event as the create command drafts it, completed by the remote.      *)
Draft(input) ==
  [f \in Fields |->
     IF f = "startDate" THEN input["start"]
     ELSE IF f = "endDate" THEN input["end"]
     ELSE IF f = "maxCapacity" THEN input["guestLimit"]
     ELSE IF f = "enableWaitlist" THEN IF HasValue(input["guestLimit"]) THEN FALSE ELSE Absent
     ELSE IF f \in Shown \cup {"rsvpsEnabled", "timezone"} THEN TRUE
     ELSE IF f = "status" THEN "PUBLISHED"
     ELSE IF f = "ownerIds" THEN {Host}
     ELSE IF f \in {"findATime", "questionnaireVersions"} THEN Null
     ELSE Absent]

(* A situation: the event, its guests, the commands, and how many of the   *)
(* changes by others have been made already.                               *)
Init ==
  /\ \E start \in Starts :
       /\ event = start.event
       /\ guests = start.guests
       /\ blasts = start.blasts
       /\ inv = start.inv
       /\ meddled = start.meddled
  /\ now = 0
  /\ pc = [p \in Proc |-> "event"]
  /\ seen = [p \in Proc |-> Unseen]
  /\ groups = [p \in Proc |-> {}]
  /\ wire = [p \in Proc |-> "none"]
  /\ answer = [p \in Proc |-> "none"]
  /\ writer = [f \in InputFields |-> Absent]
  /\ moved = [p \in Proc |-> FALSE]

Goto(p, point) == pc' = [pc EXCEPT ![p] = point] /\ UNCHANGED answer
End(p, a) == pc' = [pc EXCEPT ![p] = "done"] /\ answer' = [answer EXCEPT ![p] = a]
Proceed(p, check, point, view) ==
  IF check = "ok" THEN Goto(p, point) /\ seen' = [seen EXCEPT ![p] = view]
  ELSE End(p, check) /\ seen' = [seen EXCEPT ![p] = Unseen]

AfterEventPoint(c) ==
  IF c.do = "rsvp" THEN "guest" ELSE IF c.do = "blast" THEN "guests" ELSE "send"

ReadEvent(p) ==
  /\ pc[p] = "event"
  /\ \E reply \in Replies :
       Proceed(p, IF GetEventInfo(reply) # "ok" THEN GetEventInfo(reply)
                  ELSE AfterEvent(inv[p], Info), AfterEventPoint(inv[p]), Info)
  /\ UNCHANGED <<event, guests, blasts, now, inv, groups, wire, meddled, writer, moved>>

(* The account's own guest, after the event. *)
ReadGuest(p) ==
  /\ pc[p] = "guest"
  /\ \E reply \in Replies :
       Proceed(p, IF GetCurrentGuest(reply) # "ok" THEN GetCurrentGuest(reply)
                  ELSE RSVP(inv[p], seen[p], guests[inv[p].account]), "send", seen[p])
  /\ UNCHANGED <<event, guests, blasts, now, inv, groups, wire, meddled, writer, moved>>

(* All guests, after the event; then the host messages, and what the event *)
(* and the two lists make of the conditions.                               *)
ReadGuests(p) ==
  /\ pc[p] = "guests"
  /\ \E reply \in Replies :
       /\ Proceed(p, ListEventGuests(reply), "blasts", seen[p])
       /\ groups' = [groups EXCEPT ![p] =
                       IF ListEventGuests(reply) = "ok" THEN Audience(seen[p]) ELSE {}]
  /\ UNCHANGED <<event, guests, blasts, now, inv, wire, meddled, writer, moved>>

CountBlasts(p) ==
  /\ pc[p] = "blasts"
  /\ \E reply \in Replies :
       LET check == IF CountTextBlasts(reply) # "ok" THEN CountTextBlasts(reply)
                    ELSE BlastPreconditions(seen[p], groups[p], blasts)
       IN /\ Proceed(p, check, "send", seen[p])
          /\ groups' = [groups EXCEPT ![p] = IF check = "ok" THEN @ ELSE {}]
  /\ UNCHANGED <<event, guests, blasts, now, inv, wire, meddled, writer, moved>>

Send(p) ==
  /\ pc[p] = "send"
  /\ wire' = [wire EXCEPT ![p] = "sent"]
  /\ Goto(p, "wait")
  /\ UNCHANGED <<event, guests, blasts, now, inv, seen, groups, meddled, writer, moved>>

(* History: what an invocation has read is no longer so. *)
Outdate(p) ==
  moved' = [q \in Proc |-> moved[q] \/ (q # p /\ seen[q] # Unseen
                                        /\ (event' # event \/ guests' # guests))]

(* The request takes effect, perhaps after its sender has given up; what   *)
(* was read for it matters no more.                                        *)
Land(p) ==
  /\ wire[p] = "sent"
  /\ wire' = [wire EXCEPT ![p] = "landed"]
  /\ Effect(inv[p])
  /\ Outdate(p)
  /\ writer' = [f \in InputFields |-> IF Names(inv[p].input, f) THEN p ELSE writer[f]]
  /\ seen' = [seen EXCEPT ![p] = Unseen]
  /\ UNCHANGED <<now, inv, pc, groups, answer, meddled>>

(* The remote refuses it, or it never gets there. *)
Lose(p) ==
  /\ wire[p] = "sent"
  /\ wire' = [wire EXCEPT ![p] = "lost"]
  /\ seen' = [seen EXCEPT ![p] = Unseen]
  /\ UNCHANGED <<event, guests, blasts, now, inv, pc, groups, answer, meddled, writer, moved>>

(* The client's end: only a request that took effect is answered well.     *)
Receive(p) ==
  /\ pc[p] = "wait"
  /\ \E reply \in Replies :
       /\ reply \in {"complete", "empty"} => wire[p] = "landed"
       /\ reply \in {"not found", "drifted"} => wire[p] # "sent"
       /\ End(p, IF Completion(inv[p], reply) = "ok" THEN "submitted"
                 ELSE Completion(inv[p], reply))
  /\ UNCHANGED <<event, guests, blasts, now, inv, seen, groups, wire, meddled, writer, moved>>

(* Others change a field or a guest, on the web or the phone, or send a    *)
(* text blast of their own.                                                *)
Meddle ==
  /\ meddled < MaxMeddle
  /\ meddled' = meddled + 1
  /\ \/ \E f \in DOMAIN Values : \E v \in Values[f] \ {event[f]} :
          event' = [event EXCEPT ![f] = v] /\ UNCHANGED <<guests, blasts>>
          /\ writer' = [g \in InputFields |-> IF f \in FieldPaths(g) THEN Absent ELSE writer[g]]
     \/ \E a \in Accounts : \E g \in Guests \ {guests[a]} :
          guests' = [guests EXCEPT ![a] = g] /\ UNCHANGED <<event, blasts, writer>>
     \/ blasts' = blasts + 1 /\ UNCHANGED <<event, guests, writer>>
  /\ Outdate(Absent)
  /\ UNCHANGED <<now, inv, pc, seen, groups, wire, answer>>

Tick ==
  /\ now < MaxTime
  /\ now' = now + 1
  /\ UNCHANGED <<event, guests, blasts, inv, pc, seen, groups, wire, answer, meddled, writer, moved>>

Next ==
  \/ \E p \in Proc : \/ ReadEvent(p) \/ ReadGuest(p) \/ ReadGuests(p) \/ CountBlasts(p)
                     \/ Send(p) \/ Land(p) \/ Lose(p) \/ Receive(p)
  \/ Meddle
  \/ Tick

Spec == Init /\ [][Next]_vars
=============================================================================
