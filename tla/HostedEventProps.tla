---------------------------- MODULE HostedEventProps ----------------------------
(***************************************************************************)
(* What the checks of a mutating command are worth once its request lands. *)
(***************************************************************************)
EXTENDS HostedEvent

Outcomes == {"none", "submitted", "permission.denied", "state.conflict", "input.invalid",
             "resource.not_found", "remote.unavailable", "contract.protocol_changed"}

(* Every variable stays in its domain. *)
TypeOK ==
  /\ DOMAIN event = Fields
  /\ guests \in [Accounts -> Guest]
  /\ blasts \in Nat
  /\ now \in 0 .. MaxTime
  /\ DOMAIN inv = Proc
  /\ pc \in [Proc -> {"event", "guest", "guests", "blasts", "send", "wait", "done"}]
  /\ DOMAIN seen = Proc
  /\ groups \in [Proc -> SUBSET (Statuses \cup {"invited", "checkedIn"})]
  /\ wire \in [Proc -> {"none", "sent", "landed", "lost"}]
  /\ answer \in [Proc -> Outcomes]
  /\ meddled \in 0 .. MaxMeddle
  /\ writer \in [InputFields -> Proc \cup {Absent}]
  /\ moved \in [Proc -> BOOLEAN]

Lands(p, what) == wire[p] = "sent" /\ wire'[p] = "landed" /\ inv[p].do = what
BadRange(e) == Inverted(e["startDate"], e["endDate"])

(* A PATCH carries no precondition but the event's existence, so the range *)
(* is checked against what was read: an event whose end is not before its  *)
(* start is inverted only by an update whose event changed under it.       *)
RangeBrokenOnlyIfMoved ==
  [][\A p \in Proc : Lands(p, "update") /\ ~BadRange(event) /\ BadRange(event') => moved[p]]_vars

(* The same of the room left: an accepted party takes the guests who come  *)
(* over the event's capacity, or over the party one guest may bring, only  *)
(* when the event or its guests changed between the two reads or after.    *)
Overfull == Limited(event) /\ Taken > event["maxCapacity"]
OverfullOnlyIfMoved ==
  [][\A p \in Proc :
       Lands(p, "rsvp") /\ inv[p].intent = "going" /\ ~moved[p]
         => /\ ~Overfull'
            /\ HasValue(event["maxCountPerGuest"])
                 => guests'[inv[p].account].count <= event["maxCountPerGuest"]]_vars

(* Updates do not undo one another: a field shows what the last update     *)
(* that names it says, cleared, or set with the waitlist off, whatever     *)
(* updates of other fields landed before or after it.                      *)
Says(input, f) == IF input[f] = Null THEN Absent ELSE input[f]
NoUpdateIsLost ==
  \A f \in InputFields :
    writer[f] # Absent =>
      LET input == inv[writer[f]].input
          waitlist == IF input[f] = Null THEN Absent ELSE FALSE
      IN \A path \in FieldPaths(f) :
           event[path] = IF path = "enableWaitlist" THEN waitlist ELSE Says(input, f)

(* A blast is addressed to groups that have somebody in them, and to every *)
(* group of the event's mode that has, unless the event or its guests      *)
(* changed after the first read.                                           *)
BlastReachesItsAudience ==
  [][\A p \in Proc :
       Lands(p, "blast") /\ ~moved[p] =>
         /\ \A a \in Accounts : guests[a].status \in ModeStatuses(event)
                                  => guests[a].status \in groups[p]
         /\ \A g \in groups[p] : \E a \in Accounts :
              \/ guests[a].status = g
              \/ g = "invited" /\ guests[a].status = "SENT"
              \/ g = "checkedIn" /\ guests[a].checkedIn]_vars

(* The contract's conditions, of the event and guests as they are.         *)
PartyFits(c) ==
  LET mine == guests[c.account]
  IN Limited(event) =>
       /\ Taken < event["maxCapacity"]
       /\ Taken + c.party - Counted(mine) <= event["maxCapacity"]
RightAnswers(c) ==
  IF event["questionnaireEnabled"] = TRUE
  THEN HasValue(event["questionnaireVersions"]) /\ c.response = event["questionnaireVersions"] - 1
  ELSE c.response = Absent
Welcome(c) ==
  /\ event["rsvpsEnabled"] = TRUE /\ event["guestAction"] # "APPLY"
  /\ ~HasValue(event["ticketing"]) /\ ~HasValue(event["password"])
  /\ c.intent # "interested" =>
       /\ HasValue(event["maxCountPerGuest"]) => c.party <= event["maxCountPerGuest"]
       /\ Limited(event) => HasValue(event["remainingCapacity"])
  /\ c.intent = "going" => PartyFits(c) /\ RightAnswers(c)

Movable(c) ==
  /\ ~Inverted(Patched(event, c.input)["startDate"], Patched(event, c.input)["endDate"])
  /\ Timed(c.input) => /\ ~HasValue(event["ticketing"])
                       /\ GuestCount = 0 \/ ~LongOver(event)
Cancellable == event["status"] = "PUBLISHED" /\ GuestCount > 0 /\ event["startDate"] > now
Blastable ==
  /\ ~Expired(event)
  /\ \/ \E a \in Accounts : guests[a].status \in ModeStatuses(event) \/ guests[a].checkedIn
     \/ Cardinality({a \in Accounts : guests[a].status = "SENT"}) \in 1 .. InviteLimit
  /\ blasts <= BlastLimit

Fit(c) ==
  IF c.do = "update" THEN Movable(c)
  ELSE IF c.do = "cancel" THEN Cancellable
  ELSE IF c.do = "blast" THEN Blastable ELSE Welcome(c)

(* Nobody is turned away for nothing: a conflict or an invalid input is    *)
(* reported only when the contract's condition fails at that moment, or    *)
(* changed between the command's own reads.  One refusal is not deserved:  *)
(* the contract admits a blast with exactly BlastLimit sent before it, and *)
(* validateBlastPreconditions does not.                                    *)
AtBlastLimit(c) == c.do = "blast" /\ blasts = BlastLimit
RefusalIsDeserved ==
  [][\A p \in Proc :
       answer'[p] # answer[p] /\ answer'[p] \in {"state.conflict", "input.invalid"}
         => moved[p] \/ ~Fit(inv[p]) \/ AtBlastLimit(inv[p])]_vars
=============================================================================
