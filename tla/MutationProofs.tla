---------------------------- MODULE MutationProofs ----------------------------
(***************************************************************************)
(* Proofs about the mutating commands, for any number of invocations of    *)
(* any commands, any changes by others and any limit on text blasts.       *)
(***************************************************************************)
EXTENDS MutationProps, TLAPS

Points == {"session", "read", "confirm", "send", "wait", "done", "crashed"}
ReadNames == {"event", "poster", "contacts", "requests", "link", "guests", "blasts",
              "currentGuest"}

(* What the request and the answer of an invocation tell of each other:    *)
(* nothing is on the wire before "send", nothing is printed before "done", *)
(* and the request took effect exactly as often as the wire says.          *)
WireInv ==
  /\ pc \in [Proc -> Points]
  /\ wire \in [Proc -> {"none", "sent", "refused", "applied"}]
  /\ answer \in [Proc -> Answers]
  /\ applied \in [Proc -> Nat]
  /\ \A p \in Proc :
        /\ pc[p] \in {"session", "read", "confirm", "send"} => wire[p] = "none"
        /\ pc[p] # "done" => answer[p] = NoAnswer
        /\ answer[p] = Submitted => wire[p] = "applied"
        /\ answer[p] \notin {NoAnswer, Submitted, Uncertain, ProtocolChanged}
             => wire[p] = "none"
        /\ applied[p] = IF wire[p] = "applied" THEN 1 ELSE 0

(* The permission to send: a request needs a wet run and, if destructive,  *)
(* force or consent, and consent is given after the last read only.        *)
ConsentInv ==
  /\ inv \in [Proc -> CommandLine]
  /\ consent \in [Proc -> BOOLEAN]
  /\ toRead \in [Proc -> Seq(ReadNames)]
  /\ \A p \in Proc :
        /\ pc[p] \in {"session", "read"} => toRead[p] # <<>> /\ ~consent[p]
        /\ pc[p] = "confirm" => ~inv[p].dry /\ toRead[p] = <<>>
        /\ pc[p] = "send" \/ wire[p] # "none"
             => /\ ~inv[p].dry
                /\ inv[p].command \in Destructive => inv[p].mode = "force" \/ consent[p]
        /\ consent[p] => inv[p].mode = "ask" /\ toRead[p] = <<>>

-----------------------------------------------------------------------------
(* Every command makes at least one read. *)
LEMMA SomeRead ==
  ASSUME NEW c
  PROVE  Reads(c) \in Seq(ReadNames) /\ Reads(c) # <<>>
<1>1. \A a \in ReadNames : <<a>> \in Seq(ReadNames) /\ <<a>> # <<>>
  OBVIOUS
<1>2. \A a, b \in ReadNames : <<a, b>> \in Seq(ReadNames) /\ <<a, b>> # <<>>
  OBVIOUS
<1>3. \A a, b, d \in ReadNames : <<a, b, d>> \in Seq(ReadNames) /\ <<a, b, d>> # <<>>
  OBVIOUS
<1>4. \/ \E a \in ReadNames : Reads(c) = <<a>>
      \/ \E a, b \in ReadNames : Reads(c) = <<a, b>>
      \/ \E a, b, d \in ReadNames : Reads(c) = <<a, b, d>>
  BY DEF Reads, ReadNames
<1> QED BY <1>1, <1>2, <1>3, <1>4

(* The answers are told apart by their types, exit codes and flags. *)
LEMMA AnswersDiffer ==
  /\ Submitted # NoAnswer
  /\ Uncertain # NoAnswer /\ Uncertain # Submitted
  /\ ProtocolChanged # NoAnswer /\ ProtocolChanged # Submitted
  /\ {NoAnswer, Submitted, Preview, Uncertain, ProtocolChanged, Unconfirmed} \subseteq Answers
BY DEF Submitted, NoAnswer, Uncertain, ProtocolChanged, Answer, Answers

(* What an invocation prints before it has sent anything. *)
Unsent(c, read, s) ==
  SessionFailures \cup ReadFailures(read) \cup Refusals(c, read, s) \cup {Preview, Unconfirmed}

LEMMA UnsentAnswers ==
  ASSUME NEW c, NEW read, NEW s, NEW a \in Unsent(c, read, s)
  PROVE  a \in Answers /\ a # Submitted
<1>1. a \in Answers
  BY DEF Unsent, Answers, SessionFailures, ReadFailures, Refusals, EventRefusals, UpdateRefusals, CancelRefusals,
     InviteRefusals, CohostRefusals, LinkRefusals, BlastRefusals, RSVPRefusals
<1>2. a \in {Preview, Conflict, Unavailable, ProtocolChanged, Internal, NotFound(2), NotFound(5),
             InputInvalid, Ambiguous, Denied, Unconfirmed, AuthRequired, AuthExpired}
  BY DEF Unsent, SessionFailures, ReadFailures, Refusals, EventRefusals, UpdateRefusals, CancelRefusals,
     InviteRefusals, CohostRefusals, LinkRefusals, BlastRefusals, RSVPRefusals
<1>3. a.type # "submitted"
  BY <1>2 DEF Answer, Preview, Conflict, Unavailable, ProtocolChanged, Internal, NotFound,
     InputInvalid, Ambiguous, Denied, Unconfirmed, AuthRequired, AuthExpired
<1> QED BY <1>1, <1>3 DEF Submitted, Answer

LEMMA WireInit == Init => WireInv
BY SomeRead, AnswersDiffer DEF Init, WireInv, Points, Answers

(* Each step keeps wire, answer and count of applications in agreement.    *)
LEMMA WireStep == WireInv /\ [Next]_vars => WireInv'
<1> SUFFICES ASSUME WireInv, [Next]_vars PROVE WireInv'
  OBVIOUS
<1> USE AnswersDiffer
<1>1. CASE UNCHANGED vars
  BY <1>1 DEF WireInv, vars
<1>2. ASSUME NEW p \in Proc, Session(p) PROVE WireInv'
  <2>1. \A a \in SessionFailures : a \in Answers /\ a # Submitted
    BY UnsentAnswers DEF Unsent
  <2> QED BY <1>2, <2>1 DEF WireInv, Session, Goto, End, Points, history
<1>3. ASSUME NEW p \in Proc, Read(p) PROVE WireInv'
  <2> DEFINE read == Head(toRead[p])
             s == [f \in Fields |-> IF f \in FieldsOf(read) THEN remote[f] ELSE seen[p][f]]
  <2>1. \A a \in Unsent(inv[p], read, s) : a \in Answers /\ a # Submitted
    BY UnsentAnswers
  <2>2. /\ pc[p] = "read"
        /\ UNCHANGED <<wire, applied>>
        /\ \/ pc' = pc /\ answer' = answer
           \/ \E a \in Unsent(inv[p], read, s) : End(p, a)
           \/ \E q \in {"send", "confirm"} : Goto(p, q)
    BY <1>3 DEF Read, AfterReads, Unsent, history
  <2> QED BY <2>1, <2>2 DEF WireInv, Goto, End, Points
<1>4. ASSUME NEW p \in Proc, Confirm(p) PROVE WireInv'
  <2>1. Unconfirmed \in Answers /\ Unconfirmed # Submitted
    BY UnsentAnswers DEF Unsent
  <2> QED BY <1>4, <2>1 DEF WireInv, Confirm, Goto, End, Points
<1>5. ASSUME NEW p \in Proc, Send(p) PROVE WireInv'
  BY <1>5 DEF WireInv, Send, Goto, Points, history
<1>6. ASSUME NEW p \in Proc, Handle(p) PROVE WireInv'
  BY <1>6 DEF WireInv, Handle
<1>7. ASSUME NEW p \in Proc, Receive(p) PROVE WireInv'
  BY <1>7 DEF WireInv, Receive, End, Answers, Points, history
<1>8. ASSUME NEW p \in Proc, GiveUp(p) PROVE WireInv'
  BY <1>8 DEF WireInv, GiveUp, End, Answers, Points, history
<1>9. ASSUME NEW p \in Proc, Crash(p) PROVE WireInv'
  BY <1>9 DEF WireInv, Crash, Goto, Points, history
<1>10. CASE Meddle
  BY <1>10 DEF WireInv, Meddle
<1> QED
  BY <1>1, <1>2, <1>3, <1>4, <1>5, <1>6, <1>7, <1>8, <1>9, <1>10 DEF Next, Progress

THEOREM WireInvariant == Spec => []WireInv
<1> QED BY WireInit, WireStep, PTL DEF Spec

(* Every answer is true of the remote, whatever is lost or interrupted.    *)
THEOREM HonestAnswers == Spec => []AnswerIsHonest
<1>1. WireInv => AnswerIsHonest
  BY DEF WireInv, AnswerIsHonest
<1> QED BY <1>1, WireInvariant, PTL

(* No invocation ever changes the remote twice.                            *)
THEOREM AtMostOneEffect == Spec => []AtMostOnce
<1>1. WireInv => AtMostOnce
  <2> SUFFICES ASSUME WireInv, NEW p \in Proc PROVE applied[p] <= 1
    BY DEF AtMostOnce
  <2>1. applied[p] = 0 \/ applied[p] = 1
    BY DEF WireInv
  <2> QED BY <2>1
<1> QED BY <1>1, WireInvariant, PTL

-----------------------------------------------------------------------------
LEMMA ConsentInit == Init => ConsentInv
<1> SUFFICES ASSUME Init PROVE ConsentInv
  OBVIOUS
<1>1. inv \in [Proc -> CommandLine]
  BY BoundAssumption DEF Init
<1>2. toRead \in [Proc -> Seq(ReadNames)] /\ \A p \in Proc : toRead[p] # <<>>
  BY SomeRead DEF Init
<1> QED BY <1>1, <1>2 DEF Init, ConsentInv

(* The last read empties the list of reads. *)
LEMMA LastRead ==
  ASSUME NEW S, NEW s \in Seq(S), s # <<>>
  PROVE  /\ Tail(s) \in Seq(S)
         /\ Len(s) <= 1 => Tail(s) = <<>>
         /\ Len(s) > 1 => Tail(s) # <<>>
OBVIOUS

(* Each step respects the permission to send. *)
LEMMA ConsentStep == WireInv /\ ConsentInv /\ [Next]_vars => ConsentInv'
<1> SUFFICES ASSUME WireInv, ConsentInv, [Next]_vars PROVE ConsentInv'
  OBVIOUS
<1>1. CASE UNCHANGED vars
  BY <1>1 DEF ConsentInv, vars
<1>2. ASSUME NEW p \in Proc, Session(p) PROVE ConsentInv'
  BY <1>2 DEF ConsentInv, WireInv, Session, Goto, End, history
<1>3. ASSUME NEW p \in Proc, Read(p) PROVE ConsentInv'
  <2>1. /\ pc[p] = "read" /\ toRead[p] # <<>> /\ toRead[p] \in Seq(ReadNames)
        /\ UNCHANGED <<inv, wire, consent>>
    BY <1>3 DEF Read, ConsentInv, history
  <2>2. \/ pc' = [pc EXCEPT ![p] = "done"] /\ UNCHANGED toRead
        \/ /\ toRead' = [toRead EXCEPT ![p] = Tail(@)]
           /\ \/ pc' = [pc EXCEPT ![p] = "done"]
              \/ pc' = pc /\ Len(toRead[p]) > 1
              \/ /\ Len(toRead[p]) <= 1 /\ ~inv[p].dry
                 /\ \/ pc' = [pc EXCEPT ![p] = "confirm"]
                    \/ /\ pc' = [pc EXCEPT ![p] = "send"]
                       /\ inv[p].command \in Destructive => inv[p].mode = "force"
    <3> DEFINE read == Head(toRead[p])
               s == [f \in Fields |-> IF f \in FieldsOf(read) THEN remote[f] ELSE seen[p][f]]
               refused == Refusals(inv[p], read, s)
    <3>1. CASE \E a \in ReadFailures(read) : End(p, a) /\ UNCHANGED <<toRead, seen>>
      BY <3>1 DEF End
    <3>2. ASSUME toRead' = [toRead EXCEPT ![p] = Tail(@)],
                 IF refused # {} THEN \E a \in refused : End(p, a)
                 ELSE IF Len(toRead[p]) > 1 THEN UNCHANGED <<pc, answer>>
                 ELSE IF AfterReads(inv[p]) = "preview" THEN End(p, Preview)
                 ELSE Goto(p, AfterReads(inv[p]))
          PROVE  /\ toRead' = [toRead EXCEPT ![p] = Tail(@)]
                 /\ \/ pc' = [pc EXCEPT ![p] = "done"]
                    \/ pc' = pc /\ Len(toRead[p]) > 1
                    \/ /\ Len(toRead[p]) <= 1 /\ ~inv[p].dry
                       /\ \/ pc' = [pc EXCEPT ![p] = "confirm"]
                          \/ /\ pc' = [pc EXCEPT ![p] = "send"]
                             /\ inv[p].command \in Destructive => inv[p].mode = "force"
      <4>1. Len(toRead[p]) \in Nat
        BY <2>1
      <4>2. CASE refused # {}
        BY <3>2, <4>2 DEF End
      <4>3. CASE refused = {} /\ Len(toRead[p]) > 1
        BY <3>2, <4>3
      <4>4. CASE refused = {} /\ ~(Len(toRead[p]) > 1) /\ AfterReads(inv[p]) = "preview"
        BY <3>2, <4>4 DEF End
      <4>5. CASE refused = {} /\ ~(Len(toRead[p]) > 1) /\ AfterReads(inv[p]) # "preview"
        <5>1. Len(toRead[p]) <= 1
          BY <4>1, <4>5
        <5>2. /\ pc' = [pc EXCEPT ![p] = AfterReads(inv[p])]
              /\ ~inv[p].dry
              /\ \/ AfterReads(inv[p]) = "confirm"
                 \/ /\ AfterReads(inv[p]) = "send"
                    /\ inv[p].command \in Destructive => inv[p].mode = "force"
          BY <3>2, <4>5 DEF Goto, AfterReads
        <5> QED BY <3>2, <5>1, <5>2
      <4> QED BY <4>2, <4>3, <4>4, <4>5
    <3> QED BY <1>3, <3>1, <3>2 DEF Read
  <2>3. /\ Tail(toRead[p]) \in Seq(ReadNames)
        /\ Len(toRead[p]) <= 1 => Tail(toRead[p]) = <<>>
        /\ Len(toRead[p]) > 1 => Tail(toRead[p]) # <<>>
    BY <2>1, LastRead
  <2>5. ~consent[p] /\ wire[p] = "none" /\ p \in DOMAIN pc /\ p \in DOMAIN toRead
    BY <2>1 DEF ConsentInv, WireInv
  <2>6. /\ inv' \in [Proc -> CommandLine]
        /\ consent' \in [Proc -> BOOLEAN]
        /\ toRead' \in [Proc -> Seq(ReadNames)]
    BY <2>1, <2>2, <2>3 DEF ConsentInv
  <2>7. ASSUME NEW q \in Proc, q # p
        PROVE  pc'[q] = pc[q] /\ toRead'[q] = toRead[q]
    BY <2>2, <2>7 DEF ConsentInv, WireInv
  <2>8. \/ pc'[p] = "done"
        \/ pc'[p] = "read" /\ toRead'[p] # <<>>
        \/ /\ pc'[p] \in {"confirm", "send"} /\ ~inv[p].dry /\ toRead'[p] = <<>>
           /\ pc'[p] = "send" /\ inv[p].command \in Destructive => inv[p].mode = "force"
    BY <2>1, <2>2, <2>3, <2>5 DEF ConsentInv, WireInv
  <2> QED BY <2>1, <2>5, <2>6, <2>7, <2>8 DEF ConsentInv
<1>4. ASSUME NEW p \in Proc, Confirm(p) PROVE ConsentInv'
  <2>1. /\ pc[p] = "confirm" /\ ~inv[p].dry /\ toRead[p] = <<>> /\ wire[p] = "none"
        /\ UNCHANGED <<inv, toRead, wire>>
    BY <1>4 DEF Confirm, ConsentInv, WireInv
  <2>2. CASE consent' = [consent EXCEPT ![p] = TRUE]
    <3>1. consent'[p] /\ \A q \in Proc \ {p} : consent'[q] = consent[q]
      BY <2>2 DEF ConsentInv
    <3> QED BY <1>4, <2>1, <2>2, <3>1 DEF ConsentInv, WireInv, Confirm, Goto, End
  <2>3. CASE UNCHANGED consent /\ End(p, Unconfirmed)
    BY <2>1, <2>3 DEF ConsentInv, WireInv, End
  <2> QED BY <1>4, <2>2, <2>3 DEF Confirm
<1>5. ASSUME NEW p \in Proc, Send(p) PROVE ConsentInv'
  BY <1>5 DEF ConsentInv, WireInv, Send, Goto, history
<1>6. ASSUME NEW p \in Proc, Handle(p) PROVE ConsentInv'
  BY <1>6 DEF ConsentInv, WireInv, Handle
<1>7. ASSUME NEW p \in Proc, Receive(p) PROVE ConsentInv'
  BY <1>7 DEF ConsentInv, WireInv, Receive, End, history
<1>8. ASSUME NEW p \in Proc, GiveUp(p) PROVE ConsentInv'
  BY <1>8 DEF ConsentInv, WireInv, GiveUp, End, history
<1>9. ASSUME NEW p \in Proc, Crash(p) PROVE ConsentInv'
  BY <1>9 DEF ConsentInv, WireInv, Crash, Goto, history
<1>10. CASE Meddle
  BY <1>10 DEF ConsentInv, Meddle
<1> QED
  BY <1>1, <1>2, <1>3, <1>4, <1>5, <1>6, <1>7, <1>8, <1>9, <1>10 DEF Next, Progress

(* No destructive request leaves without force or a yes to a prompt shown  *)
(* after the last check, and no dry run sends anything.                    *)
THEOREM ConsentFirst == Spec => []ConsentBeforeHarm
<1>1. ConsentInv => ConsentBeforeHarm
  BY DEF ConsentInv, ConsentBeforeHarm
<1> QED BY <1>1, WireInvariant, ConsentInit, ConsentStep, PTL DEF Spec

-----------------------------------------------------------------------------
(* What the reads made so far have established of an invocation that has   *)
(* yet to make those of todo.                                              *)
EventRead(c, s) ==
  /\ \A f \in {"owner", "published", "open"} : s[f] # Unread
  /\ c.command # "rsvp.set" => s.owner = TRUE

Passed(c, todo, s) ==
  \/ todo = Reads(c)
  \/ /\ c.command = "events.update" /\ todo = <<"poster">>
     /\ EventRead(c, s) /\ (c.timed => s.open = TRUE)
  \/ /\ c.command \in OfContact /\ todo = <<"contacts", "requests">>
     /\ EventRead(c, s)
  \/ /\ c.command \in OfContact /\ todo = <<"requests">>
     /\ EventRead(c, s) /\ s.contacts \in 0 .. 2
  \/ /\ c.command \in OfLink /\ todo = <<"link">>
     /\ EventRead(c, s)
  \/ /\ c.command = "guests.invite" /\ todo = <<"contacts">>
     /\ EventRead(c, s)
  \/ /\ c.command = "blasts.send" /\ todo = <<"guests", "blasts">>
     /\ EventRead(c, s)
  \/ /\ c.command = "blasts.send" /\ todo = <<"blasts">>
     /\ EventRead(c, s) /\ s.guests # Unread
  \/ /\ c.command = "rsvp.set" /\ todo = <<"currentGuest">>
     /\ EventRead(c, s)

(* The fields that a command's preconditions are about. *)
Needs(c) ==
  IF c.command = "events.create" THEN {}
  ELSE {"owner", "published", "open"}
         \cup (IF c.command \in OfContact THEN {"contacts", "cohost"} ELSE {})
         \cup (IF c.command \in OfLink THEN {"link"} ELSE {})
         \cup (IF c.command = "guests.invite" THEN {"contacts"} ELSE {})
         \cup (IF c.command = "blasts.send" THEN {"guests", "blasts"} ELSE {})

(* All checks were made, on values that were all read. *)
Checked(c, s) == Allowed(c, s) /\ \A f \in Needs(c) : s[f] # Unread

(* What an invocation has seen is what the remote holds, unless something  *)
(* it had read was changed; and it goes ahead only when all checks passed  *)
(* on what it has seen.                                                    *)
SnapshotInv ==
  /\ remote \in Remote
  /\ seen \in [Proc -> [Fields -> (UNION {Values[f] : f \in Fields}) \cup {Unread}]]
  /\ moved \in [Proc -> BOOLEAN]
  /\ \A p \in Proc :
        /\ ~moved[p] /\ wire[p] # "applied"
             => \A f \in Fields : seen[p][f] \in {Unread, remote[f]}
        /\ pc[p] \in {"session", "read"} => Passed(inv[p], toRead[p], seen[p])
        /\ pc[p] \in {"confirm", "send"} \/ wire[p] = "sent" => Checked(inv[p], seen[p])

(* A field of the remote state is a value, never Unread. *)
LEMMA RemoteFields ==
  ASSUME NEW r \in Remote, NEW f \in Fields
  PROVE  r[f] \in Values[f] /\ r[f] # Unread
<1>1. r[f] \in Values[f]
  BY DEF Remote, Fields
<1> QED BY <1>1, BoundAssumption

(* Every effect leaves a remote state. *)
LEMMA EffectType ==
  ASSUME NEW r \in Remote, NEW c
  PROVE  Effect(c, r) \in Remote
<1>1. /\ Values["owner"] = BOOLEAN /\ Values["published"] = BOOLEAN
      /\ Values["open"] = BOOLEAN /\ Values["link"] = BOOLEAN
      /\ Values["guests"] = BOOLEAN /\ Values["blasts"] = 0 .. MaxBlasts
      /\ Values["cohost"] = {"absent", "PENDING", "DECLINED", "ACCEPTED"}
  BY DEF Values, Fields
<1>2. r.blasts < MaxBlasts => r.blasts + 1 \in 0 .. MaxBlasts
  BY <1>1, BoundAssumption DEF Remote
<1> QED BY <1>1, <1>2 DEF Effect, Remote

(* What follows from an empty set of refusals. *)
LEMMA NoRefusal ==
  ASSUME NEW c, NEW read, NEW s, Refusals(c, read, s) = {}
  PROVE  /\ read = "event" /\ c.command # "rsvp.set" => s.owner
         /\ read = "event" /\ s.owner /\ c.command = "events.update" /\ c.timed => s.open
         /\ read = "event" /\ s.owner /\ c.command = "events.cancel"
              => s.published /\ s.open
         /\ read = (IF c.command = "guests.invite" THEN "contacts" ELSE "requests")
              => s.contacts # 0 /\ s.contacts # 2
         /\ read = "requests" /\ s.contacts = 1 => CohostAllowed(c.command, s.cohost)
         /\ read = "link" => LinkAllowed(c.command, s.link)
         /\ read = "blasts" => s.open /\ BlastAllowed(s)
         /\ read = "currentGuest" => s.open
<1>1. read = "event" => EventRefusals(c, s) = {}
  BY DEF Refusals
<1>2. read = "event" /\ c.command # "rsvp.set" => s.owner
  BY <1>1 DEF EventRefusals
<1>3. /\ read = "event" /\ s.owner /\ c.command = "events.update" /\ c.timed => s.open
      /\ read = "event" /\ s.owner /\ c.command = "events.cancel" => s.published /\ s.open
  BY <1>1 DEF EventRefusals, UpdateRefusals, CancelRefusals
<1>4. read = (IF c.command = "guests.invite" THEN "contacts" ELSE "requests")
        => s.contacts # 0 /\ s.contacts # 2
  BY DEF Refusals, InviteRefusals, CohostRefusals
<1>5. read = "requests" /\ s.contacts = 1 => CohostAllowed(c.command, s.cohost)
  BY DEF Refusals, CohostRefusals
<1>6. /\ read = "link" => LinkAllowed(c.command, s.link)
      /\ read = "blasts" => s.open /\ BlastAllowed(s)
      /\ read = "currentGuest" => s.open
  BY DEF Refusals, LinkRefusals, BlastRefusals, RSVPRefusals
<1> QED BY <1>2, <1>3, <1>4, <1>5, <1>6

(* A read that is not refused takes an invocation from one stage to the    *)
(* next, and the last one completes the checks.                            *)
LEMMA ReadPasses ==
  ASSUME NEW c \in CommandLine, NEW todo, NEW s0, NEW r \in Remote,
         Passed(c, todo, s0), NEW s,
         s = [f \in Fields |-> IF f \in FieldsOf(Head(todo)) THEN r[f] ELSE s0[f]],
         Refusals(c, Head(todo), s) = {}
  PROVE  IF Len(todo) > 1 THEN Passed(c, Tail(todo), s) ELSE Checked(c, s)
<1> DEFINE read == Head(todo)
<1>1. \A f \in Fields : s[f] = IF f \in FieldsOf(read) THEN r[f] ELSE s0[f]
  OBVIOUS
<1>2. \A f \in Fields : r[f] \in Values[f] /\ r[f] # Unread
  BY RemoteFields
<1>3. Values["contacts"] = 0 .. 2 /\ Values["owner"] = BOOLEAN /\ Values["open"] = BOOLEAN
      /\ Values["published"] = BOOLEAN
  BY DEF Values, Fields
<1>4. read = "event" => EventRead(c, s) /\ (c.command \in {"events.update"} /\ c.timed => s.open = TRUE)
                        /\ (c.command = "events.cancel" => s.open /\ s.published)
  <2> SUFFICES ASSUME read = "event"
               PROVE  EventRead(c, s) /\ (c.command \in {"events.update"} /\ c.timed => s.open = TRUE)
                        /\ (c.command = "events.cancel" => s.open /\ s.published)
    OBVIOUS
  <2>1. /\ s["owner"] = r["owner"] /\ s["open"] = r["open"] /\ s["published"] = r["published"]
    BY <1>1 DEF FieldsOf, Fields
  <2>2. /\ s.owner \in BOOLEAN /\ s.open \in BOOLEAN /\ s.published \in BOOLEAN
        /\ s.owner # Unread /\ s.open # Unread /\ s.published # Unread
    BY <2>1, <1>2, <1>3 DEF Fields
  <2>3. c.command # "rsvp.set" => s.owner
    BY NoRefusal
  <2>4. /\ s.owner /\ c.command = "events.update" /\ c.timed => s.open
        /\ s.owner /\ c.command = "events.cancel" => s.published /\ s.open
    BY NoRefusal
  <2> QED BY <2>2, <2>3, <2>4 DEF EventRead
<1>5. EventRead(c, s0) /\ read # "event" => EventRead(c, s)
  BY <1>1 DEF EventRead, FieldsOf, Fields
<1>6. CASE c.command = "events.create"
  <2>1. todo = <<"poster">>
    BY <1>6 DEF Passed, Reads, OfContact, OfLink
  <2> QED BY <1>6, <2>1 DEF Checked, Allowed, Needs, OfContact, OfLink
<1>7. CASE c.command = "events.update"
  <2>1. \/ todo = <<"event", "poster">> /\ c.poster
        \/ todo = <<"event">>
        \/ todo = <<"poster">> /\ EventRead(c, s0) /\ (c.timed => s0.open = TRUE)
    BY <1>7 DEF Passed, Reads, OfContact, OfLink
  <2>2. CASE todo = <<"event", "poster">>
    <3>1. read = "event" /\ Tail(todo) = <<"poster">> /\ Len(todo) > 1
      BY <2>2
    <3> QED BY <1>4, <1>7, <3>1 DEF Passed
  <2>3. ASSUME EventRead(c, s), c.timed => s.open = TRUE PROVE Checked(c, s)
    BY <1>7, <2>3 DEF Checked, Allowed, Needs, EventRead, OfContact, OfLink
  <2>4. CASE todo = <<"event">>
    <3>1. read = "event" /\ ~(Len(todo) > 1)
      BY <2>4
    <3> QED BY <1>4, <1>7, <2>3, <3>1
  <2>5. CASE todo = <<"poster">> /\ EventRead(c, s0) /\ (c.timed => s0.open = TRUE)
    <3>1. read = "poster" /\ ~(Len(todo) > 1)
      BY <2>5
    <3>2. s["open"] = s0["open"]
      BY <1>1, <3>1 DEF FieldsOf, Fields
    <3> QED BY <1>5, <2>3, <2>5, <3>1, <3>2
  <2> QED BY <2>1, <2>2, <2>4, <2>5
<1>8. CASE c.command = "events.cancel"
  <2>1. todo = <<"event">>
    BY <1>8 DEF Passed, Reads, OfContact, OfLink
  <2>2. read = "event" /\ ~(Len(todo) > 1)
    BY <2>1
  <2> QED BY <1>4, <1>8, <2>2 DEF Checked, Allowed, Needs, EventRead, OfContact, OfLink
<1>9. CASE c.command \in OfContact
  <2>1. \/ todo = <<"event", "contacts", "requests">>
        \/ todo = <<"contacts", "requests">> /\ EventRead(c, s0)
        \/ todo = <<"requests">> /\ EventRead(c, s0) /\ s0.contacts \in 0 .. 2
    BY <1>9 DEF Passed, Reads, OfContact, OfLink
  <2>2. CASE todo = <<"event", "contacts", "requests">>
    <3>1. read = "event" /\ Tail(todo) = <<"contacts", "requests">> /\ Len(todo) > 1
      BY <2>2
    <3> QED BY <1>4, <1>9, <3>1 DEF Passed
  <2>3. CASE todo = <<"contacts", "requests">> /\ EventRead(c, s0)
    <3>1. read = "contacts" /\ Tail(todo) = <<"requests">> /\ Len(todo) > 1
      BY <2>3
    <3>2. s["contacts"] = r["contacts"]
      BY <1>1, <3>1 DEF FieldsOf, Fields
    <3>3. s.contacts \in 0 .. 2
      BY <1>2, <1>3, <3>2 DEF Fields
    <3> QED BY <1>5, <1>9, <2>3, <3>1, <3>3 DEF Passed
  <2>4. CASE todo = <<"requests">> /\ EventRead(c, s0) /\ s0.contacts \in 0 .. 2
    <3>1. read = "requests" /\ ~(Len(todo) > 1) /\ c.command # "guests.invite"
      BY <1>9, <2>4 DEF OfContact
    <3>2. s["contacts"] = s0["contacts"] /\ s["cohost"] = r["cohost"]
      BY <1>1, <3>1 DEF FieldsOf, Fields
    <3>3. s.contacts = 1 /\ CohostAllowed(c.command, s.cohost)
      BY NoRefusal, <2>4, <3>1, <3>2
    <3>4. s.cohost # Unread /\ s.contacts # Unread
      BY <1>2, <1>3, <3>2, <3>3, BoundAssumption DEF Fields
    <3>5. EventRead(c, s)
      BY <1>5, <2>4, <3>1
    <3> QED BY <1>9, <3>1, <3>3, <3>4, <3>5 DEF Checked, Allowed, Needs, EventRead, OfContact, OfLink
  <2> QED BY <2>1, <2>2, <2>3, <2>4
<1>10. CASE c.command \in OfLink
  <2>0. Reads(c) = <<"event", "link">>
    BY <1>10 DEF Reads, OfContact, OfLink
  <2>1. todo = <<"event", "link">> \/ (todo = <<"link">> /\ EventRead(c, s0))
    BY <1>10, <2>0 DEF Passed, OfContact, OfLink
  <2>2. CASE todo = <<"event", "link">>
    <3>1. read = "event" /\ Tail(todo) = <<"link">> /\ Len(todo) > 1
      BY <2>2
    <3> QED BY <1>4, <1>10, <3>1 DEF Passed
  <2>3. CASE todo = <<"link">> /\ EventRead(c, s0)
    <3>1. read = "link" /\ ~(Len(todo) > 1)
      BY <2>3
    <3>2. s["link"] # Unread /\ LinkAllowed(c.command, s.link)
      BY <1>1, <1>2, <3>1, NoRefusal DEF FieldsOf, Fields
    <3>3. EventRead(c, s)
      BY <1>5, <2>3, <3>1
    <3> QED BY <1>10, <3>1, <3>2, <3>3 DEF Checked, Allowed, Needs, EventRead, OfContact, OfLink
  <2> QED BY <2>1, <2>2, <2>3
<1>11. CASE c.command = "guests.invite"
  <2>0. Reads(c) = <<"event", "contacts">>
    BY <1>11 DEF Reads, OfContact, OfLink
  <2>1. todo = <<"event", "contacts">> \/ (todo = <<"contacts">> /\ EventRead(c, s0))
    BY <1>11, <2>0 DEF Passed, OfContact, OfLink
  <2>2. CASE todo = <<"event", "contacts">>
    <3>1. read = "event" /\ Tail(todo) = <<"contacts">> /\ Len(todo) > 1
      BY <2>2
    <3> QED BY <1>4, <1>11, <3>1 DEF Passed
  <2>3. CASE todo = <<"contacts">> /\ EventRead(c, s0)
    <3>1. read = "contacts" /\ ~(Len(todo) > 1)
      BY <2>3
    <3>2. s["contacts"] = r["contacts"]
      BY <1>1, <3>1 DEF FieldsOf, Fields
    <3>3. s.contacts = 1 /\ s.contacts # Unread
      BY <1>2, <1>3, <1>11, <3>1, <3>2, NoRefusal DEF Fields
    <3>4. EventRead(c, s)
      BY <1>5, <2>3, <3>1
    <3> QED BY <1>11, <3>1, <3>3, <3>4 DEF Checked, Allowed, Needs, EventRead, OfContact, OfLink
  <2> QED BY <2>1, <2>2, <2>3
<1>12. CASE c.command = "blasts.send"
  <2>1. \/ todo = <<"event", "guests", "blasts">>
        \/ todo = <<"guests", "blasts">> /\ EventRead(c, s0)
        \/ todo = <<"blasts">> /\ EventRead(c, s0) /\ s0.guests # Unread
    BY <1>12 DEF Passed, Reads, OfContact, OfLink
  <2>2. CASE todo = <<"event", "guests", "blasts">>
    <3>1. read = "event" /\ Tail(todo) = <<"guests", "blasts">> /\ Len(todo) > 1
      BY <2>2
    <3> QED BY <1>4, <1>12, <3>1 DEF Passed
  <2>3. CASE todo = <<"guests", "blasts">> /\ EventRead(c, s0)
    <3>1. read = "guests" /\ Tail(todo) = <<"blasts">> /\ Len(todo) > 1
      BY <2>3
    <3>2. s["guests"] # Unread
      BY <1>1, <1>2, <3>1 DEF FieldsOf, Fields
    <3> QED BY <1>5, <1>12, <2>3, <3>1, <3>2 DEF Passed
  <2>4. CASE todo = <<"blasts">> /\ EventRead(c, s0) /\ s0.guests # Unread
    <3>1. read = "blasts" /\ ~(Len(todo) > 1)
      BY <2>4
    <3>2. s["guests"] = s0["guests"] /\ s["blasts"] # Unread
      BY <1>1, <1>2, <3>1 DEF FieldsOf, Fields
    <3>3. s.open /\ BlastAllowed(s)
      BY <3>1, NoRefusal
    <3>4. EventRead(c, s)
      BY <1>5, <2>4, <3>1
    <3> QED BY <1>12, <2>4, <3>1, <3>2, <3>3, <3>4 DEF Checked, Allowed, Needs, EventRead, OfContact, OfLink
  <2> QED BY <2>1, <2>2, <2>3, <2>4
<1>13. CASE c.command = "rsvp.set"
  <2>0. Reads(c) = <<"event", "currentGuest">>
    BY <1>13 DEF Reads, OfContact, OfLink
  <2>1. todo = <<"event", "currentGuest">> \/ (todo = <<"currentGuest">> /\ EventRead(c, s0))
    BY <1>13, <2>0 DEF Passed, OfContact, OfLink
  <2>2. CASE todo = <<"event", "currentGuest">>
    <3>1. read = "event" /\ Tail(todo) = <<"currentGuest">> /\ Len(todo) > 1
      BY <2>2
    <3> QED BY <1>4, <1>13, <3>1 DEF Passed
  <2>3. CASE todo = <<"currentGuest">> /\ EventRead(c, s0)
    <3>1. read = "currentGuest" /\ ~(Len(todo) > 1)
      BY <2>3
    <3>2. s.open
      BY <3>1, NoRefusal
    <3>3. EventRead(c, s)
      BY <1>5, <2>3, <3>1
    <3> QED BY <1>13, <3>1, <3>2, <3>3 DEF Checked, Allowed, Needs, EventRead, OfContact, OfLink
  <2> QED BY <2>1, <2>2, <2>3
<1> QED
  BY <1>6, <1>7, <1>8, <1>9, <1>10, <1>11, <1>12, <1>13
     DEF CommandLine, Commands, OfContact, OfLink

LEMMA MeddleType ==
  ASSUME NEW r \in Remote, NEW f \in Fields, NEW v \in Values[f]
  PROVE  [r EXCEPT ![f] = v] \in Remote
BY DEF Remote, Fields

LEMMA SnapshotInit == Init => SnapshotInv
<1> SUFFICES ASSUME Init PROVE SnapshotInv
  OBVIOUS
<1>1. remote \in Remote
  BY DEF Init
<1>2. seen \in [Proc -> [Fields -> (UNION {Values[f] : f \in Fields}) \cup {Unread}]]
  <2> DEFINE W == UNION {Values[f] : f \in Fields}
  <2> HIDE DEF W
  <2>1. seen \in [Proc -> [Fields -> W \cup {Unread}]]
    BY DEF Init
  <2> QED BY <2>1 DEF W
<1>3. \A p \in Proc : Passed(inv[p], toRead[p], seen[p])
  BY DEF Init, Passed
<1> QED BY <1>1, <1>2, <1>3 DEF Init, SnapshotInv

(* No step breaks the link between what was seen and what is there.        *)
LEMMA SnapshotStep ==
  WireInv /\ ConsentInv /\ SnapshotInv /\ [Next]_vars => SnapshotInv'
<1> SUFFICES ASSUME WireInv, ConsentInv, SnapshotInv, [Next]_vars PROVE SnapshotInv'
  OBVIOUS
<1> DEFINE V == (UNION {Values[f] : f \in Fields}) \cup {Unread}
<1>1. CASE UNCHANGED vars
  BY <1>1 DEF SnapshotInv, vars
<1>2. ASSUME NEW p \in Proc, Session(p) PROVE SnapshotInv'
  BY <1>2 DEF SnapshotInv, WireInv, Session, Goto, End, history
<1>3. ASSUME NEW p \in Proc, Read(p) PROVE SnapshotInv'
  <2> DEFINE read == Head(toRead[p])
             s == [f \in Fields |-> IF f \in FieldsOf(read) THEN remote[f] ELSE seen[p][f]]
             refused == Refusals(inv[p], read, s)
  <2>1. /\ pc[p] = "read" /\ wire[p] = "none"
        /\ inv[p] \in CommandLine /\ remote \in Remote /\ seen[p] \in [Fields -> V]
        /\ Passed(inv[p], toRead[p], seen[p])
        /\ UNCHANGED <<remote, inv, wire, moved>>
    BY <1>3 DEF Read, SnapshotInv, ConsentInv, WireInv, history
  <2>2. CASE \E a \in ReadFailures(read) : End(p, a) /\ UNCHANGED <<toRead, seen>>
    BY <2>1, <2>2 DEF SnapshotInv, WireInv, End
  <2>3. ASSUME seen' = [seen EXCEPT ![p] = s],
               toRead' = [toRead EXCEPT ![p] = Tail(@)],
               IF refused # {} THEN \E a \in refused : End(p, a)
               ELSE IF Len(toRead[p]) > 1 THEN UNCHANGED <<pc, answer>>
               ELSE IF AfterReads(inv[p]) = "preview" THEN End(p, Preview)
               ELSE Goto(p, AfterReads(inv[p]))
        PROVE  SnapshotInv'
    <3>1. s \in [Fields -> V]
      BY <2>1, RemoteFields
    <3>2. seen'[p] = s /\ toRead'[p] = Tail(toRead[p])
          /\ \A q \in Proc \ {p} : seen'[q] = seen[q] /\ toRead'[q] = toRead[q]
      BY <2>3 DEF SnapshotInv, ConsentInv
    <3>3. seen' \in [Proc -> [Fields -> V]]
      BY <2>3, <3>1 DEF SnapshotInv
    <3>4. \A q \in Proc : ~moved[q] /\ wire[q] # "applied"
            => \A f \in Fields : seen'[q][f] \in {Unread, remote[f]}
      BY <2>1, <3>2 DEF SnapshotInv
    <3>5. \A q \in Proc \ {p} : pc'[q] = pc[q]
      BY <2>3 DEF WireInv, End, Goto
    <3>6. \/ pc'[p] = "done"
          \/ pc'[p] = "read" /\ Passed(inv[p], Tail(toRead[p]), s)
          \/ pc'[p] \in {"confirm", "send"} /\ Checked(inv[p], s)
      <4>1. CASE refused # {}
        BY <2>3, <4>1 DEF End, WireInv
      <4>2. CASE refused = {}
        <5>1. IF Len(toRead[p]) > 1 THEN Passed(inv[p], Tail(toRead[p]), s)
              ELSE Checked(inv[p], s)
          BY <2>1, <4>2, ReadPasses
        <5>2. AfterReads(inv[p]) \in {"preview", "confirm", "send"}
          BY DEF AfterReads
        <5> QED BY <2>1, <2>3, <4>2, <5>1, <5>2 DEF End, Goto, WireInv
      <4> QED BY <4>1, <4>2
    <3> HIDE DEF s
    <3> QED BY <2>1, <3>2, <3>3, <3>4, <3>5, <3>6 DEF SnapshotInv
  <2> QED BY <1>3, <2>2, <2>3 DEF Read
<1>4. ASSUME NEW p \in Proc, Confirm(p) PROVE SnapshotInv'
  BY <1>4 DEF SnapshotInv, WireInv, Confirm, Goto, End
<1>5. ASSUME NEW p \in Proc, Send(p) PROVE SnapshotInv'
  BY <1>5 DEF SnapshotInv, WireInv, Send, Goto, history
<1>6. ASSUME NEW p \in Proc, Handle(p) PROVE SnapshotInv'
  <2>1. wire[p] = "sent" /\ UNCHANGED <<inv, pc, toRead, seen>>
    BY <1>6 DEF Handle
  <2>2. CASE wire' = [wire EXCEPT ![p] = "refused"] /\ UNCHANGED <<remote, moved>>
    BY <2>1, <2>2 DEF SnapshotInv, WireInv
  <2>3. CASE /\ wire' = [wire EXCEPT ![p] = "applied"]
             /\ remote' = Effect(inv[p].command, remote)
             /\ moved' = [q \in Proc |-> moved[q] \/ (q # p /\ Outdates(q))]
    <3>1. remote' \in Remote
      BY <2>3, EffectType DEF SnapshotInv
    <3>2. moved' \in [Proc -> BOOLEAN]
      BY <2>3 DEF SnapshotInv
    <3>3. ASSUME NEW q \in Proc, ~moved'[q], wire'[q] # "applied", NEW f \in Fields
          PROVE  seen'[q][f] \in {Unread, remote'[f]}
      <4>1. q # p /\ wire[q] = wire'[q]
        BY <2>3, <3>3 DEF WireInv
      <4>2. ~moved[q] /\ ~Outdates(q)
        BY <2>3, <3>3, <4>1 DEF SnapshotInv
      <4> QED BY <2>1, <3>3, <4>1, <4>2 DEF SnapshotInv, Outdates
    <3>4. ASSUME NEW q \in Proc, wire'[q] = "sent" PROVE wire[q] = "sent"
      BY <2>3, <3>4 DEF WireInv
    <3> QED BY <2>1, <3>1, <3>2, <3>3, <3>4 DEF SnapshotInv
  <2> QED BY <1>6, <2>2, <2>3 DEF Handle
<1>7. ASSUME NEW p \in Proc, Receive(p) PROVE SnapshotInv'
  BY <1>7 DEF SnapshotInv, WireInv, Receive, End, history
<1>8. ASSUME NEW p \in Proc, GiveUp(p) PROVE SnapshotInv'
  BY <1>8 DEF SnapshotInv, WireInv, GiveUp, End, history
<1>9. ASSUME NEW p \in Proc, Crash(p) PROVE SnapshotInv'
  BY <1>9 DEF SnapshotInv, WireInv, Crash, Goto, history
<1>10. CASE Meddle
  <2>1. moved' = [q \in Proc |-> moved[q] \/ Outdates(q)]
        /\ UNCHANGED <<inv, pc, toRead, seen, wire>>
    BY <1>10 DEF Meddle
  <2>2. remote' \in Remote
    <3>1. PICK f \in Varying : \E v \in Values[f] : remote' = [remote EXCEPT ![f] = v]
      BY <1>10 DEF Meddle
    <3>2. f \in Fields /\ remote \in Remote
      BY BoundAssumption DEF SnapshotInv
    <3> QED BY <3>1, <3>2, MeddleType
  <2>3. moved' \in [Proc -> BOOLEAN]
    BY <2>1 DEF SnapshotInv
  <2>4. ASSUME NEW q \in Proc, ~moved'[q], wire[q] # "applied", NEW f \in Fields
        PROVE  seen[q][f] \in {Unread, remote'[f]}
    <3>1. ~moved[q] /\ ~Outdates(q)
      BY <2>1, <2>4 DEF SnapshotInv
    <3> QED BY <2>4, <3>1 DEF SnapshotInv, Outdates
  <2> QED BY <2>1, <2>2, <2>3, <2>4 DEF SnapshotInv
<1> QED
  BY <1>1, <1>2, <1>3, <1>4, <1>5, <1>6, <1>7, <1>8, <1>9, <1>10 DEF Next, Progress

(* A precondition depends on the fields it needs and on nothing else.      *)
LEMMA AllowedOfNeeds ==
  ASSUME NEW c, NEW V, NEW s \in [Fields -> V], NEW r \in Remote,
         Allowed(c, s), \A f \in Needs(c) : s[f] = r[f]
  PROVE  Allowed(c, r)
<1>1. c.command # "events.create"
        => s["owner"] = r["owner"] /\ s["published"] = r["published"] /\ s["open"] = r["open"]
  BY DEF Needs
<1>2. c.command \in OfContact => s["contacts"] = r["contacts"] /\ s["cohost"] = r["cohost"]
  BY DEF Needs, OfContact
<1>3. c.command \in OfLink => s["link"] = r["link"]
  BY DEF Needs, OfLink
<1>4. c.command = "guests.invite" => s["contacts"] = r["contacts"]
  BY DEF Needs
<1>5. c.command = "blasts.send" => s["guests"] = r["guests"] /\ s["blasts"] = r["blasts"]
  BY DEF Needs
<1> QED BY <1>1, <1>2, <1>3, <1>4, <1>5 DEF Allowed, BlastAllowed, OfContact, OfLink

(* The checks are complete: a mutation that takes effect against its own   *)
(* preconditions does so because something it had read was changed.        *)
THEOREM ChecksComplete == Spec => StaleOnlyIfMoved
<1> DEFINE A == \A p \in Proc :
                  (applied'[p] # applied[p] /\ ~Allowed(inv[p], remote)) => moved[p]
<1>1. WireInv /\ ConsentInv /\ SnapshotInv /\ [Next]_vars => [A]_vars
  <2> SUFFICES ASSUME WireInv, SnapshotInv, Next,
                      NEW p \in Proc, applied'[p] # applied[p], ~moved[p]
               PROVE  Allowed(inv[p], remote)
    OBVIOUS
  <2>1. PICK q \in Proc : Handle(q)
    BY DEF Next, Progress, Session, Read, Confirm, Send, Receive, GiveUp, Crash, Meddle, history
  <2>2. q = p /\ wire[p] = "sent"
    BY <2>1 DEF Handle, WireInv
  <2>3. /\ Checked(inv[p], seen[p])
        /\ \A f \in Fields : seen[p][f] \in {Unread, remote[f]}
    BY <2>2 DEF SnapshotInv
  <2>4. Allowed(inv[p], seen[p]) /\ \A f \in Needs(inv[p]) : seen[p][f] = remote[f]
    BY <2>3 DEF Checked, Needs, Fields
  <2> QED BY <2>4, AllowedOfNeeds DEF SnapshotInv
<1>2. Spec => [][A]_vars
  BY <1>1, WireInvariant, ConsentInit, ConsentStep, SnapshotInit, SnapshotStep, PTL DEF Spec
<1> QED BY <1>2 DEF StaleOnlyIfMoved
-----------------------------------------------------------------------------
(* Others meddle a bounded number of times, and a part of the remote state *)
(* that was read holds a value of that part.                               *)
RangeInv ==
  /\ meddled \in 0 .. MaxMeddle
  /\ \A p \in Proc, f \in Fields : seen[p][f] \in {Unread} \cup Values[f]

LEMMA RangeStep ==
  ASSUME SnapshotInv, RangeInv, [Next]_vars
  PROVE  RangeInv'
<1>1. ASSUME NEW p \in Proc, Read(p) PROVE RangeInv'
  <2> DEFINE read == Head(toRead[p])
             s == [f \in Fields |-> IF f \in FieldsOf(read) THEN remote[f] ELSE seen[p][f]]
  <2>1. \A f \in Fields : s[f] \in {Unread} \cup Values[f]
    BY RemoteFields DEF SnapshotInv, RangeInv
  <2>2. (seen' = [seen EXCEPT ![p] = s] \/ UNCHANGED seen) /\ UNCHANGED meddled
    BY <1>1 DEF Read
  <2> HIDE DEF s
  <2>3. \A q \in Proc : (seen'[q] = s /\ q = p) \/ seen'[q] = seen[q]
    BY <2>2 DEF SnapshotInv
  <2> QED BY <2>1, <2>2, <2>3 DEF RangeInv
<1>2. ASSUME NEW p \in Proc,
             \/ Session(p) \/ Confirm(p) \/ Send(p) \/ Handle(p) \/ Receive(p)
             \/ GiveUp(p) \/ Crash(p)
      PROVE  RangeInv'
  BY <1>2 DEF RangeInv, Session, Confirm, Send, Handle, Receive, GiveUp, Crash
<1>3. CASE Meddle
  BY <1>3, BoundAssumption DEF RangeInv, Meddle
<1>4. CASE UNCHANGED vars
  BY <1>4 DEF RangeInv, vars
<1> QED BY <1>1, <1>2, <1>3, <1>4 DEF Next, Progress

(* Every variable stays in its domain, for any invocations of any commands.*)
THEOREM TypeCorrect == Spec => []TypeOK
<1>1. Init => RangeInv
  BY BoundAssumption DEF Init, RangeInv
<1>2. SnapshotInv /\ RangeInv /\ [Next]_vars => RangeInv'
  BY RangeStep
<1>3. WireInv /\ ConsentInv /\ SnapshotInv /\ RangeInv => TypeOK
  BY DEF WireInv, ConsentInv, SnapshotInv, RangeInv, TypeOK, Points, ReadNames
<1> QED
  BY <1>1, <1>2, <1>3, WireInvariant, ConsentInit, ConsentStep, SnapshotInit, SnapshotStep,
     PTL DEF Spec

=============================================================================
