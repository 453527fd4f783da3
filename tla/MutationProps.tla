----------------------------- MODULE MutationProps -----------------------------
(***************************************************************************)
(* What a mutating command promises to the person who runs it.             *)
(***************************************************************************)
EXTENDS Mutation

Answers ==
  {NoAnswer, Submitted, Preview, Conflict, Unavailable, Uncertain, ProtocolChanged,
   Internal, NotFound(2), NotFound(5), InputInvalid, Ambiguous, Denied, Unconfirmed,
   AuthRequired, AuthExpired}

(* Every variable stays in its domain. *)
TypeOK ==
  /\ remote \in Remote
  /\ inv \in [Proc -> CommandLine]
  /\ pc \in [Proc -> {"session", "read", "confirm", "send", "wait", "done", "crashed"}]
  /\ \A p \in Proc : toRead[p] \in Seq({"event", "poster", "contacts", "requests", "link",
                                        "guests", "blasts", "currentGuest"})
  /\ \A p \in Proc, f \in Fields : seen[p][f] \in {Unread} \cup Values[f]
  /\ wire \in [Proc -> {"none", "sent", "refused", "applied"}]
  /\ answer \in [Proc -> Answers]
  /\ meddled \in 0 .. MaxMeddle
  /\ applied \in [Proc -> Nat]
  /\ consent \in [Proc -> BOOLEAN]
  /\ moved \in [Proc -> BOOLEAN]

(* The answer tells the truth about the remote: "submitted" means that the *)
(* change happened; every other answer than the non-retryable "could not   *)
(* be confirmed" and the protocol failure means that nothing was sent and  *)
(* nothing will happen later, so that running the command again is safe    *)
(* (previews, refusals, exits 2 to 7, retryable failures).                 *)
AnswerIsHonest ==
  \A p \in Proc :
    /\ answer[p] = Submitted => applied[p] = 1
    /\ answer[p] \notin {NoAnswer, Submitted, Uncertain, ProtocolChanged} => wire[p] = "none"

(* One invocation changes the remote at most once, whatever was lost: no   *)
(* step retries a mutation.                                                *)
AtMostOnce == \A p \in Proc : applied[p] <= 1

(* A destructive request is sent only after --force, or after a yes to a   *)
(* prompt shown once all reads and checks were done; a dry run sends none. *)
ConsentBeforeHarm ==
  \A p \in Proc :
    wire[p] # "none" => /\ ~inv[p].dry
                        /\ inv[p].command \in Destructive => inv[p].mode = "force" \/ consent[p]
                        /\ consent[p] => inv[p].mode = "ask" /\ toRead[p] = <<>>

(* The command's preconditions, all of them, of one remote state. *)
Allowed(c, r) ==
  /\ c.command \notin {"events.create", "rsvp.set"} => r.owner
  /\ c.command \in {"events.cancel", "blasts.send", "rsvp.set"} => r.open
  /\ c.command = "events.cancel" => r.published
  /\ c.command = "events.update" /\ c.timed => r.open
  /\ c.command \in OfContact => r.contacts = 1 /\ CohostAllowed(c.command, r.cohost)
  /\ c.command = "guests.invite" => r.contacts = 1
  /\ c.command \in OfLink => LinkAllowed(c.command, r.link)
  /\ c.command = "blasts.send" => BlastAllowed(r)

(* The checks miss nothing: a mutation takes effect against its own        *)
(* preconditions only when something it had read was changed by others (or *)
(* by the time) between the reads, the prompt and the request.             *)
StaleOnlyIfMoved ==
  [][\A p \in Proc :
       (applied'[p] # applied[p] /\ ~Allowed(inv[p], remote)) => moved[p]]_vars

(* Every invocation comes to an end, except one that waits for its human.  *)
EveryInvocationAnswers ==
  \A p \in Proc : pc[p] # "confirm" ~> pc[p] \in {"confirm", "done", "crashed"}

(* docs/CLI-PRODUCT-CONTRACT.md:135 says that a domain resource that does  *)
(* not exist exits 5.                                                      *)
NotFoundExitsFive ==
  \A p \in Proc : answer[p].type = "resource.not_found" => answer[p].exit = 5
=============================================================================
