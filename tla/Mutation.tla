------------------------------- MODULE Mutation -------------------------------
(***************************************************************************)
(* The commands that change remote state.  Each invocation acquires a      *)
(* session, reads what its preconditions are about, one request after the  *)
(* other, and refuses, previews (--dry-run), asks (destructive commands)   *)
(* or sends one request, whose answer may be lost.  Between the reads and  *)
(* the request other people, and other invocations, go on changing the     *)
(* event (internal/app: event_write.go, cohosts.go, guests.go, blasts.go,  *)
(* rsvp_set.go, confirmation.go; internal/remote: the calls they make).    *)
(***************************************************************************)
EXTENDS Integers, Sequences

CONSTANTS
  Proc,        \* the invocations
  Mix,         \* the command lines they are drawn from
  Unread,      \* a part of the remote state an invocation has not read
  BlastLimit,  \* text blasts an event may have (10 in the code)
  MaxBlasts,   \* bound of the number of text blasts
  Varying,     \* the parts of the remote state that may be out of the ordinary
  MaxMeddle    \* bound of the number of changes made by others

Commands == {"events.create", "events.update", "events.cancel", "cohosts.invite",
             "cohosts.revoke-invite", "cohosts.remove", "cohosts.link.create",
             "cohosts.link.revoke", "guests.invite", "blasts.send", "rsvp.set"}

Destructive == {"events.cancel", "cohosts.remove", "cohosts.revoke-invite",
                "cohosts.link.revoke"}
OfContact == {"cohosts.invite", "cohosts.revoke-invite", "cohosts.remove"}
OfLink == {"cohosts.link.create", "cohosts.link.revoke"}

(* The remote state the preconditions are about: whether the account hosts *)
(* the event, whether it is still published, whether its times, ticketing  *)
(* and RSVP safeguards allow the command (open), how many contacts match   *)
(* the query, the cohost request of that contact, the invite link, whether *)
(* the event has guests to write to, how many text blasts it has had.      *)
Fields == {"owner", "published", "open", "contacts", "cohost", "link", "guests", "blasts"}
Values == [f \in Fields |->
             IF f = "contacts" THEN 0 .. 2
             ELSE IF f = "cohost" THEN {"absent", "PENDING", "DECLINED", "ACCEPTED"}
             ELSE IF f = "blasts" THEN 0 .. MaxBlasts
             ELSE BOOLEAN]
Remote == [owner: Values["owner"], published: Values["published"], open: Values["open"],
           contacts: Values["contacts"], cohost: Values["cohost"], link: Values["link"],
           guests: Values["guests"], blasts: Values["blasts"]]

Ordinary == [owner |-> TRUE, published |-> TRUE, open |-> TRUE, contacts |-> 1,
             cohost |-> "absent", link |-> FALSE, guests |-> TRUE, blasts |-> 0]

(* mode: "force" for --force, "ask" when a prompt is possible, "never" for *)
(* --no-input or when standard input is no terminal.  Only an update gives *)
(* times (timed) or a poster, and only a destructive command asks.         *)
CommandLine == [command: Commands, dry: BOOLEAN, mode: {"force", "ask", "never"},
                timed: BOOLEAN, poster: BOOLEAN]
Sensible(c) ==
  /\ c.command \notin Destructive => c.mode = "never"
  /\ c.command # "events.update" => ~c.timed /\ ~c.poster

ASSUME BoundAssumption ==
  /\ Mix \subseteq {c \in CommandLine : Sensible(c)}
  /\ Varying \subseteq Fields
  /\ BlastLimit \in Nat /\ MaxBlasts \in Nat /\ MaxMeddle \in Nat
  /\ \A f \in Fields : Unread \notin Values[f]

(* What an invocation prints: its failure type, exit code, retryable flag. *)
Answer(type, exit, retry) == [type |-> type, exit |-> exit, retry |-> retry]
NoAnswer == Answer("none", 0, FALSE)
Submitted == Answer("submitted", 0, FALSE)
Preview == Answer("preview", 0, FALSE)
Conflict == Answer("state.conflict", 6, FALSE)
Unavailable == Answer("remote.unavailable", 8, TRUE)
Uncertain == Answer("remote.unavailable", 8, FALSE)
ProtocolChanged == Answer("contract.protocol_changed", 9, FALSE)
Internal == Answer("internal.failure", 10, FALSE)
NotFound(exit) == Answer("resource.not_found", exit, FALSE)
AuthRequired == Answer("auth.required", 3, FALSE)
AuthExpired == Answer("auth.expired", 3, FALSE)
InputInvalid == Answer("input.invalid", 2, FALSE)
Ambiguous == Answer("match.ambiguous", 2, FALSE)
Denied == Answer("permission.denied", 4, FALSE)
Unconfirmed == Answer("safety.confirmation_required", 7, FALSE)

VARIABLES
  remote,    \* the remote state
  inv,       \* inv[p]: the command line of p
  pc,        \* pc[p]: where p is
  toRead,    \* toRead[p]: the reads p has yet to make, in order
  seen,      \* seen[p]: the remote state as p has read it
  wire,      \* wire[p]: p's mutation request
  answer,    \* answer[p]: what p printed
  meddled,   \* the number of changes made by others
  applied,   \* history: how often p's mutation took effect
  consent,   \* history: the human answered yes to p's prompt
  moved      \* history: something p had read has changed since

vars == <<remote, inv, pc, toRead, seen, wire, answer, meddled, applied, consent, moved>>
history == <<applied, consent, moved>>

-----------------------------------------------------------------------------
(* The reads of a command, in order; the poster of an update is optional.  *)
Reads(c) ==
  IF c.command = "events.create" THEN <<"poster">>
  ELSE IF c.command = "events.update"
       THEN IF c.poster THEN <<"event", "poster">> ELSE <<"event">>
  ELSE IF c.command = "events.cancel" THEN <<"event">>
  ELSE IF c.command \in OfContact THEN <<"event", "contacts", "requests">>
  ELSE IF c.command \in OfLink THEN <<"event", "link">>
  ELSE IF c.command = "guests.invite" THEN <<"event", "contacts">>
  ELSE IF c.command = "blasts.send" THEN <<"event", "guests", "blasts">>
  ELSE <<"event", "currentGuest">>

FieldsOf(read) ==
  IF read = "event" THEN {"owner", "published", "open"}
  ELSE IF read = "contacts" THEN {"contacts"}
  ELSE IF read = "requests" THEN {"cohost"}
  ELSE IF read = "link" THEN {"link"}
  ELSE IF read = "guests" THEN {"guests"}
  ELSE IF read = "blasts" THEN {"blasts"}
  ELSE {}

(* The cohost state each contact action starts from. *)
CohostAllowed(command, state) ==
  IF command = "cohosts.invite" THEN state \in {"absent", "DECLINED"}
  ELSE IF command = "cohosts.revoke-invite" THEN state \in {"PENDING", "DECLINED"}
  ELSE state = "ACCEPTED"

LinkAllowed(command, link) == link = (command = "cohosts.link.revoke")

BlastAllowed(s) == s.guests /\ s.blasts < BlastLimit

(* An update that changes times needs a sound range and an event that is   *)
(* not ticketed and, if it has guests, not long over; a cancellation needs *)
(* a published event with guests that lies ahead.                          *)
UpdateRefusals(c, s) == IF c.timed /\ ~s.open THEN {Conflict, InputInvalid} ELSE {}
CancelRefusals(s) == IF s.published /\ s.open THEN {} ELSE {Conflict}

EventRefusals(c, s) ==
  IF c.command # "rsvp.set" /\ ~s.owner THEN {Denied}
  ELSE IF c.command = "events.update" THEN UpdateRefusals(c, s)
  ELSE IF c.command = "events.cancel" THEN CancelRefusals(s)
  ELSE {}

(* The contact must be one, and a cohost contact in the right state; only  *)
(* the invitation of a guest gives a missing contact the exit code of a    *)
(* usage error.                                                            *)
InviteRefusals(s) ==
  IF s.contacts = 0 THEN {NotFound(2)} ELSE IF s.contacts = 1 THEN {} ELSE {Ambiguous}

CohostRefusals(c, s) ==
  IF s.contacts = 0 THEN {NotFound(5)}
  ELSE IF s.contacts = 1
       THEN IF CohostAllowed(c.command, s.cohost) THEN {} ELSE {Conflict}
  ELSE {Ambiguous}

LinkRefusals(c, s) == IF LinkAllowed(c.command, s.link) THEN {} ELSE {Conflict}
BlastRefusals(s) == IF s.open /\ BlastAllowed(s) THEN {} ELSE {Conflict}
RSVPRefusals(s) == IF s.open THEN {} ELSE {Conflict, InputInvalid}

(* What c is refused for right after a read, given all it has read so far. *)
RefusalsOfEvent(c, read, s) ==                                 \* mutant
  IF read = "event" THEN EventRefusals(c, s) ELSE {}
RefusalsMisnumbered(c, read, s) ==                             \* mutant
  IF read \in {"contacts", "link"} THEN {NotFound(10)} ELSE {}
Refusals(c, read, s) ==
  IF read = "event" THEN EventRefusals(c, s)
  ELSE IF read = "contacts" /\ c.command = "guests.invite" THEN InviteRefusals(s)
  ELSE IF read = "requests" THEN CohostRefusals(c, s)
  ELSE IF read = "link" THEN LinkRefusals(c, s)
  ELSE IF read = "blasts" THEN BlastRefusals(s)
  ELSE IF read = "currentGuest" THEN RSVPRefusals(s)
  ELSE {}

(* How a read itself fails. *)
ReadFailures(read) ==
  {Unavailable, ProtocolChanged}
    \cup (IF read \in {"event", "poster"} THEN {NotFound(5)} ELSE {})
    \cup (IF read = "contacts" THEN {AuthExpired} ELSE {})

SessionFailures == {AuthRequired, AuthExpired, Unavailable, ProtocolChanged, Internal}

(* What a mutation does to the remote state. *)
Effect(command, r) ==
  IF command = "events.cancel" THEN [r EXCEPT !.published = FALSE]
  ELSE IF command = "cohosts.invite" THEN [r EXCEPT !.cohost = "PENDING"]
  ELSE IF command \in {"cohosts.revoke-invite", "cohosts.remove"}
       THEN [r EXCEPT !.cohost = "absent"]
  ELSE IF command \in OfLink THEN [r EXCEPT !.link = (command = "cohosts.link.create")]
  ELSE IF command = "blasts.send" /\ r.blasts < MaxBlasts
       THEN [r EXCEPT !.blasts = @ + 1]
  ELSE r

-----------------------------------------------------------------------------
Init ==
  /\ remote \in {r \in Remote : \A f \in Fields \ Varying : r[f] = Ordinary[f]}
  /\ inv \in [Proc -> Mix]
  /\ pc = [p \in Proc |-> IF inv[p].command = "events.create" /\ inv[p].dry
                          THEN "read" ELSE "session"]
  /\ toRead = [p \in Proc |-> Reads(inv[p])]
  /\ seen = [p \in Proc |-> [f \in Fields |-> Unread]]
  /\ wire = [p \in Proc |-> "none"]
  /\ answer = [p \in Proc |-> NoAnswer]
  /\ meddled = 0
  /\ applied = [p \in Proc |-> 0]
  /\ consent = [p \in Proc |-> FALSE]
  /\ moved = [p \in Proc |-> FALSE]

Goto(p, point) == pc' = [pc EXCEPT ![p] = point] /\ UNCHANGED answer
End(p, a) == pc' = [pc EXCEPT ![p] = "done"] /\ answer' = [answer EXCEPT ![p] = a]

(* acquireProtectedMutationSession; a session without a user is refused,   *)
(* and so is a machine that yields no random device id.                    *)
Session(p) ==
  /\ pc[p] = "session"
  /\ \/ Goto(p, "read")
     \/ \E a \in SessionFailures : End(p, a)
  /\ UNCHANGED <<remote, inv, toRead, seen, wire, meddled, history>>

(* After the last read: a dry run prints its preview, a destructive        *)
(* command asks unless it is forced, all others go ahead.                  *)
SendAnyway(c) == "send"                                        \* mutant
AfterReads(c) ==
  IF c.dry THEN "preview"
  ELSE IF c.command \in Destructive /\ c.mode # "force" THEN "confirm" ELSE "send"

(* One read and the checks that follow it. *)
Read(p) ==
  /\ pc[p] = "read"
  /\ LET read == Head(toRead[p])
         s == [f \in Fields |-> IF f \in FieldsOf(read) THEN remote[f] ELSE seen[p][f]]
     IN \/ \E a \in ReadFailures(read) : End(p, a) /\ UNCHANGED <<toRead, seen>>
        \/ /\ seen' = [seen EXCEPT ![p] = s]
           /\ toRead' = [toRead EXCEPT ![p] = Tail(@)]
           /\ IF Refusals(inv[p], read, s) # {}
              THEN \E a \in Refusals(inv[p], read, s) : End(p, a)
              ELSE IF Len(toRead[p]) > 1 THEN UNCHANGED <<pc, answer>>
              ELSE IF AfterReads(inv[p]) = "preview" THEN End(p, Preview)
              ELSE Goto(p, AfterReads(inv[p]))
  /\ UNCHANGED <<remote, inv, wire, meddled, history>>

(* requireDestructiveConfirmation *)
Confirm(p) ==
  /\ pc[p] = "confirm"
  /\ \/ /\ inv[p].mode = "ask"
        /\ consent' = [consent EXCEPT ![p] = TRUE]
        /\ Goto(p, "send")
     \/ End(p, Unconfirmed) /\ UNCHANGED consent
  /\ UNCHANGED <<remote, inv, toRead, seen, wire, meddled, applied, moved>>

(* The one request. *)
Send(p) ==
  /\ pc[p] = "send"
  /\ wire' = [wire EXCEPT ![p] = "sent"]
  /\ Goto(p, "wait")
  /\ UNCHANGED <<remote, inv, toRead, seen, meddled, history>>

(* History: the step changes a part of the remote state that q has read.   *)
Outdates(q) == \E f \in Fields : seen[q][f] # Unread /\ remote'[f] # remote[f]

(* The remote handles it, perhaps after the client has given up or died;   *)
(* whether it checks anything itself is not ours to know.                  *)
Handle(p) ==
  /\ wire[p] = "sent"
  /\ \/ /\ wire' = [wire EXCEPT ![p] = "refused"]
        /\ UNCHANGED <<remote, applied, moved>>
     \/ /\ wire' = [wire EXCEPT ![p] = "applied"]
        /\ remote' = Effect(inv[p].command, remote)
        /\ applied' = [applied EXCEPT ![p] = @ + 1]
        /\ moved' = [q \in Proc |-> moved[q] \/ (q # p /\ Outdates(q))]
  /\ UNCHANGED <<inv, pc, toRead, seen, answer, meddled, consent>>

(* The answer: a recognised completion, or one that no longer matches the  *)
(* reviewed contract.                                                      *)
Receive(p) ==
  /\ pc[p] = "wait"
  /\ wire[p] \in {"applied", "refused"}
  /\ \/ wire[p] = "applied" /\ End(p, Submitted)
     \/ End(p, ProtocolChanged)
  /\ UNCHANGED <<remote, inv, toRead, seen, wire, meddled, history>>

SendAgain(p) ==                                                \* mutant
  /\ pc[p] = "wait"
  /\ wire' = [wire EXCEPT ![p] = "sent"]
  /\ UNCHANGED <<remote, inv, pc, toRead, seen, answer, meddled, history>>
GiveUpRetryable(p) ==                                          \* mutant
  /\ pc[p] = "wait"
  /\ End(p, Unavailable)
  /\ UNCHANGED <<remote, inv, toRead, seen, wire, meddled, history>>

(* No answer within the client's timeout, or a broken connection, before   *)
(* or after the remote saw the request.                                    *)
GiveUp(p) ==
  /\ pc[p] = "wait"
  /\ End(p, Uncertain)
  /\ UNCHANGED <<remote, inv, toRead, seen, wire, meddled, history>>

(* Interrupted anywhere. *)
Crash(p) ==
  /\ pc[p] \notin {"done", "crashed"}
  /\ Goto(p, "crashed")
  /\ UNCHANGED <<remote, inv, toRead, seen, wire, meddled, history>>

(* Somebody else, on the web or the phone, changes the remote state, or    *)
(* time takes the event past one of its limits.                            *)
Meddle ==
  /\ meddled < MaxMeddle
  /\ meddled' = meddled + 1
  /\ \E f \in Varying : \E v \in Values[f] \ {remote[f]} :
        remote' = [remote EXCEPT ![f] = v]
  /\ moved' = [q \in Proc |-> moved[q] \/ Outdates(q)]
  /\ UNCHANGED <<inv, pc, toRead, seen, wire, answer, applied, consent>>

(* A human owes the prompt no answer, the remote owes no handling. *)
Progress(p) == Session(p) \/ Read(p) \/ Send(p) \/ Receive(p) \/ GiveUp(p)

Next ==
  \/ \E p \in Proc : Progress(p) \/ Confirm(p) \/ Handle(p) \/ Crash(p)
  \/ Meddle

Spec == Init /\ [][Next]_vars
FairSpec == Spec /\ \A p \in Proc : WF_vars(Progress(p))
=============================================================================
