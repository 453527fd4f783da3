----------------------------- MODULE MCHostedEvent -----------------------------
(* Small values for HostedEvent: commands, and what others may do.         *)
EXTENDS HostedEventProps, TLC

CONSTANTS host, guest, fan   \* the host's account and two guests

NoInput == <<>>
UpdateOf(account, input) ==
  [do |-> "update", account |-> account, input |-> input, intent |-> "none",
   party |-> 0, response |-> Absent]
Plain(do, account) == [UpdateOf(account, NoInput) EXCEPT !.do = do]
RSVPOf(account, intent, party, response) ==
  [Plain("rsvp", account) EXCEPT !.intent = intent, !.party = party, !.response = response]

(* Commands that meet on the same event, and those that run alone.         *)
Rivals ==
  {UpdateOf(host, input) : input \in
     {"start" :> 2, "end" :> 1, "guestLimit" :> 2, ("guestLimit" :> Null) @@ ("description" :> Null)}}
    \cup {RSVPOf(guest, "going", 2, Absent), RSVPOf(fan, "going", 2, Absent),
          RSVPOf(fan, "not-going", 1, Absent), Plain("cancel", host), Plain("blast", host)}
Soloists ==
  {UpdateOf(host, input) : input \in
     {"start" :> 2, ("start" :> 1) @@ ("end" :> 0), "end" :> Null, "end" :> 1, "timezone" :> FALSE}}
    \cup {RSVPOf(guest, "going", party, Absent) : party \in 1 .. 3}
    \cup {RSVPOf(fan, "interested", 0, Absent), RSVPOf(fan, "going", 1, 1),
          RSVPOf(fan, "not-going", 3, Absent), Plain("cancel", host), Plain("blast", host)}
Bystander == Plain("cancel", guest)

Creation(start, end, limit) == [start |-> start, end |-> end, guestLimit |-> limit]
SmallCreations == {Creation(1, 2, 3), Creation(1, Absent, Absent)}

GuestOf(status, count, checkedIn) ==
  [status |-> status, count |-> count, checkedIn |-> checkedIn]
SmallGuests == {NoGuest, GuestOf("GOING", 2, FALSE), GuestOf("WAITLIST", 1, TRUE)}
FewGuests ==
  {guest :> g @@ fan :> GuestOf("SENT", 1, FALSE) : g \in {NoGuest, GuestOf("GOING", 2, FALSE)}}

(* What others do while the invocations run.                               *)
SmallValues ==
  [f \in {"endDate", "maxCapacity", "enableWaitlist", "questionnaireVersions"} |->
     IF f = "endDate" THEN {0}
     ELSE IF f = "maxCapacity" THEN {2}
     ELSE IF f = "enableWaitlist" THEN {TRUE}
     ELSE {2}]

(* What they may have done before.                                         *)
OddValues ==
  [f \in Fields \ {"timezone"} |->
     IF f = "startDate" THEN {Absent, 0}
     ELSE IF f = "endDate" THEN {Null, 1}
     ELSE IF f = "maxCapacity" THEN {Null, 2}
     ELSE IF f = "enableWaitlist" THEN {TRUE, Null}
     ELSE IF f = "status" THEN {"UNSAVED", Absent}
     ELSE IF f = "ownerIds" THEN {{guest}, Absent}
     ELSE IF f = "guestAction" THEN {"APPLY", "RSVP"}
     ELSE IF f = "rsvpsEnabled" THEN {FALSE, Absent}
     ELSE IF f = "password" THEN {TRUE, Null}
     ELSE IF f = "maxCountPerGuest" THEN {0, 2}
     ELSE IF f = "questionnaireEnabled" THEN {TRUE}
     ELSE IF f = "questionnaireVersions" THEN {Absent, 0, 2}
     ELSE IF f = "findATime" THEN {TRUE, Absent}
     ELSE IF f = "ticketing" THEN {TRUE, Null}
     ELSE IF f = "guestCount" THEN {Null}
     ELSE {Absent}]

Start(e, g, i, b, m) == [event |-> e, guests |-> g, inv |-> i, blasts |-> b, meddled |-> m]
Together ==
  {Start(Draft(Creation(1, 2, 3)), g, i, 0, 0) : g \in FewGuests, i \in [Proc -> Rivals]}
Oddities == UNION {{<<f, v>> : v \in OddValues[f]} : f \in DOMAIN OddValues}
Alone(p) ==
  {Start([Draft(input) EXCEPT ![odd[1]] = odd[2]], g,
         [q \in Proc |-> IF q = p THEN c ELSE Bystander], 0, MaxMeddle) :
     odd \in Oddities, input \in SmallCreations, g \in FewGuests, c \in Soloists}
  \cup {Start(Draft(input), g, [q \in Proc |-> IF q = p THEN Plain("blast", host) ELSE Bystander],
             b, MaxMeddle) :
          input \in SmallCreations, g \in FewGuests, b \in 0 .. BlastLimit + 1}
SmallStarts == Together \cup UNION {Alone(p) : p \in Proc}

Symmetry == Permutations(Proc)
=============================================================================
