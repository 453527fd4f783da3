--------------------------- MODULE CredentialStore ---------------------------
(***************************************************************************)
(* The stored credentials of the CLI and the processes that share them.    *)
(*                                                                         *)
(* Every invocation of the program is a process of its own.  "auth login", *)
(* "auth status", "auth logout", "doctor" and the protected commands (with *)
(* or without --dry-run) all reach the one file credentials.json; flock on *)
(* credentials.json.lock is the only coordination between them             *)
(* (internal/auth/auth.go, persist.go, os_files.go, os_unix.go).  The      *)
(* token service is external: it is modelled by what RefreshToken and      *)
(* SignInWithCustomToken (internal/remote/auth.go) accept from it.         *)
(***************************************************************************)
EXTENDS Integers, FiniteSets

CONSTANTS
  Proc,        \* the processes, one invocation each
  Mix,         \* the commands they are drawn from
  NoProc,      \* nobody holds the lock
  NoFile,      \* credentials.json does not exist
  BadFile,     \* credentials.json does not hold a valid record
  NoRecord,    \* a process holds no record
  Denied,      \* the answer "this refresh token is not accepted"
  Subjects,    \* subjects a token may carry; NoUser for an opaque token
  NoUser,
  Window,      \* the refresh window (five minutes in the code)
  Timeout,     \* longest time between the issue of a token and its receipt
  Lifetimes,   \* lifetimes the token service may answer
  MaxTime,     \* bound of the clock
  MaxGrant     \* bound of the number of grants the token service issues

Subject == Subjects \cup {NoUser}

(* A credential record: chain and gen identify its tokens (the sign-in     *)
(* they descend from, the grant that issued them), refresh says whether it *)
(* has a refresh token, sub and exp are what the access token itself says, *)
(* user and expires are what the program stored next to it.                *)
Record == [chain: Nat, gen: Nat, refresh: BOOLEAN, sub: Subject, exp: Nat,
           user: Subject, expires: Nat]

(* A successful answer of the token service. *)
Reply == [chain: Nat, gen: Nat, sub: Subject, life: Nat, exp: Nat]

(* The HTTP client gives up long before the refresh window has passed      *)
(* (remote/http.go: 30 seconds; remote/auth.go: 5 minutes).                *)
ASSUME TimingAssumption ==
  /\ Window \in Nat
  /\ Timeout \in Nat
  /\ Timeout <= Window
  /\ Lifetimes \subseteq Nat
  /\ MaxTime \in Nat
  /\ MaxGrant \in Nat

Commands == {"login", "status", "session", "dryrun", "logout", "doctor"}

ASSUME MixAssumption == Mix \subseteq Commands

ASSUME SentinelAssumption ==
  /\ NoProc \notin Proc
  /\ NoFile \notin Record
  /\ BadFile \notin Record
  /\ NoFile # BadFile
  /\ NoRecord \notin Record
  /\ NoRecord \notin Reply
  /\ Denied \notin Reply
  /\ Denied # NoRecord

(* What an invocation reports: a credential state, a session, or the code  *)
(* of its failure.  AUTH_CALL_FAILED stands for AUTH_SERVICE_UNAVAILABLE   *)
(* and AUTH_PROTOCOL_CHANGED, LOGIN_REFUSED for what ends a login at its   *)
(* prompts: no step depends on which of them it was.                       *)
Results ==
  {"none", "missing", "healthy", "expiring", "expired", "session",
   "AUTHENTICATION_REQUIRED", "SESSION_EXPIRED", "INVALID_REFRESH_TOKEN",
   "INVALID_CUSTOM_TOKEN", "LOGIN_REFUSED", "AUTH_CALL_FAILED",
   "CREDENTIALS_INVALID", "CREDENTIAL_STORE_UNAVAILABLE"}

Points == {"prompt", "signin", "lock", "load", "remove", "doctor", "request",
           "reply", "create", "write", "replace", "saved", "removed", "done", "crashed"}

VARIABLES
  disk,      \* credentials.json
  lock,      \* the holder of the flock on credentials.json.lock
  cmd,       \* cmd[p]: the command p executes
  pc,        \* pc[p]: where p is
  held,      \* held[p]: the credentials in p's memory
  wire,      \* wire[p]: the answer on its way to p
  temp,      \* temp[p]: the .credentials-* file p is writing
  result,    \* result[p]: what p reports
  now,       \* the wall clock
  issued,    \* the number of the last grant the token service issued
  accepted,  \* the <<chain, gen>> of the refresh tokens it accepts
  lost,      \* history: chains with a refresh token that was revoked or missed the file
  retired    \* history: chains that were in the file and left it

vars == <<disk, lock, cmd, pc, held, wire, temp, result, now, issued, accepted,
          lost, retired>>
remote == <<issued, accepted>>

-----------------------------------------------------------------------------
(* stateFromCredentials *)
HealthyUntilExpiry(r) == r.expires > now                       \* mutant
Healthy(r) == r.expires > now + Window
Expiring(r) == ~Healthy(r) /\ r.expires > now
StateOf(r) == IF Healthy(r) THEN "healthy"
              ELSE IF Expiring(r) THEN "expiring" ELSE "expired"

(* parseExpiresIn: the answer must outlive the refresh window *)
PositiveLifetime(life) == life > 0                             \* mutant
UsableLifetime(life) == life > Window

(* The user of a session, and of the record built from an answer: the      *)
(* subject of the new token, or, when that token is opaque, the user known *)
(* before.  acquireSession asks the old token first, refreshCredentials    *)
(* only the stored field.                                                  *)
SubjectOr(sub, user) == IF sub # NoUser THEN sub ELSE user
KnownUser(r) == SubjectOr(r.sub, r.user)
SubjectOnly(c, r, sub) == sub                                  \* mutant
RefreshedUser(c, r, sub) ==
  SubjectOr(sub, IF c = "login" THEN NoUser
                 ELSE IF c = "status" THEN r.user ELSE KnownUser(r))
ExpiredRecordOf(reply, user) ==                                \* mutant
  [chain |-> reply.chain, gen |-> reply.gen, refresh |-> TRUE,
   sub |-> reply.sub, exp |-> reply.exp, user |-> user,
   expires |-> now - reply.life]
RoundedRecordOf(reply, user) ==                                \* mutant
  [chain |-> reply.chain, gen |-> reply.gen, refresh |-> TRUE,
   sub |-> reply.sub, exp |-> reply.exp, user |-> user,
   expires |-> now + reply.life + 1]
RecordOf(reply, user) ==
  [chain |-> reply.chain, gen |-> reply.gen, refresh |-> TRUE,
   sub |-> reply.sub, exp |-> reply.exp, user |-> user,
   expires |-> now + reply.life]

ChainsOf(file) == IF file \in Record THEN {file.chain} ELSE {}

(* The token service no longer accepts the refresh token of the file.      *)
Stale(file) == file \in Record /\ file.refresh
               /\ <<file.chain, file.gen>> \notin accepted

-----------------------------------------------------------------------------
FirstPoint(c) == IF c = "login" THEN "prompt"
                 ELSE IF c = "doctor" THEN "doctor" ELSE "lock"

(* A file found at the start.  Its access token names a subject, which is  *)
(* then the stored user too, or is opaque, and then the user may be absent *)
(* as the refresh token may.                                               *)
FoundRecord(e, sub, user, f) ==
  [chain |-> 0, gen |-> 0, refresh |-> f, sub |-> sub, exp |-> e,
   user |-> SubjectOr(sub, user), expires |-> e]

Init ==
  /\ disk \in {NoFile, BadFile}
        \cup {FoundRecord(e, sub, user, f) :
                 e \in 0 .. (Window + 1), sub \in Subject, user \in Subject, f \in BOOLEAN}
  /\ lock = NoProc
  /\ cmd \in [Proc -> Mix]
  /\ pc = [p \in Proc |-> FirstPoint(cmd[p])]
  /\ held = [p \in Proc |-> NoRecord]
  /\ wire = [p \in Proc |-> NoRecord]
  /\ temp = [p \in Proc |-> "none"]
  /\ result = [p \in Proc |-> "none"]
  /\ now = 0
  /\ issued = 0
  /\ accepted = {<<0, 0>>}
  /\ lost = {}
  /\ retired = {}

(* WithLock takes an exclusive flock. *)
SharedLock == TRUE                                             \* mutant
LockIsFree == lock = NoProc

(* Where a command begins once it has the lock. *)
UnderLock(c) == IF c = "login" THEN "create"
                ELSE IF c = "logout" THEN "remove" ELSE "load"

(* Where an answered request goes on: a login has yet to take the lock,    *)
(* a refresh holds it; a dry run stores nothing.                           *)
SaveWithoutLock(c) == IF c = "dryrun" THEN "done" ELSE "create"  \* mutant
NeverSave(c) == IF c = "login" THEN "lock" ELSE "done"         \* mutant
SaveDryRun(c) == IF c = "login" THEN "lock" ELSE "create"      \* mutant
AfterAnswer(c) == IF c = "login" THEN "lock"
                  ELSE IF c = "dryrun" THEN "done" ELSE "create"

Goto(p, point) == pc' = [pc EXCEPT ![p] = point]

FinishWithoutRelease(p, r) ==                                  \* mutant
  /\ Goto(p, "done")
  /\ result' = [result EXCEPT ![p] = r]
  /\ wire' = [wire EXCEPT ![p] = NoRecord]
  /\ UNCHANGED lock

(* The end of an invocation; WithLock's deferred release drops the flock.  *)
Finish(p, r) ==
  /\ Goto(p, "done")
  /\ result' = [result EXCEPT ![p] = r]
  /\ lock' = IF lock = p THEN NoProc ELSE lock
  /\ wire' = [wire EXCEPT ![p] = NoRecord]

(* Where a save can still fail: once the file is renamed, WriteFileAtomic  *)
(* has nothing left to fail (syncDirectory returns no error).              *)
SyncMayFail(p) == pc[p] \in {"create", "write", "replace", "saved"}  \* mutant
Saving(p) == pc[p] \in {"create", "write", "replace"}

(* History: p gives up while only p could still have stored the refresh    *)
(* token that replaced the file's.                                         *)
Abandon(p) ==
  lost' = IF (pc[p] = "reply" \/ Saving(p)) /\ cmd[p] # "login" /\ Stale(disk)
          THEN lost \cup ChainsOf(disk) ELSE lost

-----------------------------------------------------------------------------
(* Login: two private prompts, the code by SMS, the custom token.  Nothing *)
(* is stored and no lock is held.                                          *)
LoginPrompts(p) ==
  /\ pc[p] = "prompt"
  /\ \/ Goto(p, "signin") /\ UNCHANGED <<lock, result, wire>>
     \/ Finish(p, "LOGIN_REFUSED")
  /\ UNCHANGED <<disk, cmd, held, temp, now, issued, accepted, lost, retired>>

(* The token service opens a new chain for the custom token, or refuses it. *)
SignIn(p) ==
  /\ pc[p] = "signin"
  /\ Goto(p, "reply")
  /\ \/ /\ wire' = [wire EXCEPT ![p] = Denied]
        /\ UNCHANGED remote
     \/ /\ issued < MaxGrant
        /\ issued' = issued + 1
        /\ accepted' = accepted \cup {<<issued + 1, issued + 1>>}
        /\ \E life \in Lifetimes, sub \in Subject :
              wire' = [wire EXCEPT ![p] =
                         [chain |-> issued + 1, gen |-> issued + 1, sub |-> sub,
                          life |-> life, exp |-> now + life]]
  /\ UNCHANGED <<disk, lock, cmd, held, temp, result, now, lost, retired>>

(* flock(LOCK_EX) blocks until the file is free. *)
AcquireLock(p) ==
  /\ pc[p] = "lock"
  /\ LockIsFree
  /\ lock' = p
  /\ Goto(p, UnderLock(cmd[p]))
  /\ UNCHANGED <<disk, cmd, held, wire, temp, result, now, issued, accepted, lost, retired>>

(* The directory or the lock file cannot be prepared. *)
LockFails(p) ==
  /\ pc[p] = "lock"
  /\ Finish(p, "CREDENTIAL_STORE_UNAVAILABLE")
  /\ UNCHANGED <<disk, cmd, held, temp, now, issued, accepted, lost, retired>>

(* acquireSession and refreshCredentials up to the refresh request. *)
Load(p) ==
  /\ pc[p] = "load"
  /\ \/ Finish(p, "CREDENTIAL_STORE_UNAVAILABLE") /\ UNCHANGED held
     \/ /\ disk = NoFile
        /\ Finish(p, IF cmd[p] = "status" THEN "missing" ELSE "AUTHENTICATION_REQUIRED")
        /\ UNCHANGED held
     \/ /\ disk = BadFile
        /\ Finish(p, "CREDENTIALS_INVALID")
        /\ UNCHANGED held
     \/ /\ disk \in Record
        /\ Healthy(disk) \/ ~disk.refresh
        /\ Finish(p, IF cmd[p] = "status" THEN StateOf(disk)
                     ELSE IF StateOf(disk) = "expired" THEN "SESSION_EXPIRED"
                     ELSE "session")
        /\ held' = [held EXCEPT ![p] = disk]
     \/ /\ disk \in Record
        /\ ~Healthy(disk) /\ disk.refresh
        /\ held' = [held EXCEPT ![p] = disk]
        /\ Goto(p, "request")
        /\ UNCHANGED <<lock, result, wire>>
  /\ UNCHANGED <<disk, cmd, temp, now, issued, accepted, lost, retired>>

(* doctor reads the file without the lock and refreshes nothing (Status). *)
Doctor(p) ==
  /\ pc[p] = "doctor"
  /\ \/ Finish(p, "CREDENTIAL_STORE_UNAVAILABLE")
     \/ disk = NoFile /\ Finish(p, "missing")
     \/ disk = BadFile /\ Finish(p, "CREDENTIALS_INVALID")
     \/ disk \in Record /\ Finish(p, StateOf(disk))
  /\ UNCHANGED <<disk, cmd, held, temp, now, issued, accepted, lost, retired>>

-----------------------------------------------------------------------------
(* The token service answers a refresh request.  It may rotate: accept     *)
(* only the new refresh token from then on.                                *)
RemoteRefresh(p) ==
  /\ pc[p] = "request"
  /\ Goto(p, "reply")
  /\ LET old == <<held[p].chain, held[p].gen>> IN
     \/ /\ old \notin accepted
        /\ wire' = [wire EXCEPT ![p] = Denied]
        /\ UNCHANGED remote
     \/ /\ old \in accepted
        /\ issued < MaxGrant
        /\ issued' = issued + 1
        /\ \E rotate \in BOOLEAN :
              accepted' = (IF rotate THEN accepted \ {old} ELSE accepted)
                          \cup {<<held[p].chain, issued + 1>>}
        /\ \E life \in Lifetimes, sub \in Subject :
              wire' = [wire EXCEPT ![p] =
                         [chain |-> held[p].chain, gen |-> issued + 1,
                          sub |-> sub, life |-> life, exp |-> now + life]]
  /\ UNCHANGED <<disk, lock, cmd, held, temp, result, now, lost, retired>>

(* The request never reaches the token service, the answer is lost or      *)
(* late, or the answer cannot be understood.                               *)
CallFails(p) ==
  /\ pc[p] \in {"signin", "request", "reply"}
  /\ Finish(p, "AUTH_CALL_FAILED")
  /\ Abandon(p)
  /\ UNCHANGED <<disk, cmd, held, temp, now, issued, accepted, retired>>

(* The answer arrives: a login waits for the lock, a dry run keeps the     *)
(* session to itself, any other refresh is stored.                         *)
Receive(p) ==
  /\ pc[p] = "reply"
  /\ \/ /\ wire[p] = Denied
        /\ Finish(p, IF cmd[p] = "login" THEN "INVALID_CUSTOM_TOKEN"
                     ELSE "INVALID_REFRESH_TOKEN")
        /\ Abandon(p)
        /\ UNCHANGED held
     \/ /\ wire[p] # Denied
        /\ ~UsableLifetime(wire[p].life)
        /\ Finish(p, "AUTH_CALL_FAILED")
        /\ Abandon(p)
        /\ UNCHANGED held
     \/ /\ wire[p] # Denied
        /\ UsableLifetime(wire[p].life)
        /\ held' = [held EXCEPT ![p] =
             RecordOf(wire[p], RefreshedUser(cmd[p], held[p], wire[p].sub))]
        /\ IF AfterAnswer(cmd[p]) = "done"
           THEN Finish(p, "session") /\ Abandon(p)
           ELSE /\ Goto(p, AfterAnswer(cmd[p]))
                /\ wire' = [wire EXCEPT ![p] = NoRecord]
                /\ UNCHANGED <<lock, result, lost>>
  /\ UNCHANGED <<disk, cmd, temp, now, issued, accepted, retired>>

-----------------------------------------------------------------------------
(* WriteFileAtomic: a temporary file is created, written and synced, and   *)
(* renamed over credentials.json, with which the save is done.             *)
CreateTemp(p) ==
  /\ pc[p] = "create"
  /\ temp' = [temp EXCEPT ![p] = "partial"]
  /\ Goto(p, "write")
  /\ UNCHANGED <<disk, lock, cmd, held, wire, result, now, issued, accepted, lost, retired>>

WriteInPlace(p) ==                                             \* mutant
  /\ pc[p] = "write"
  /\ disk' = held[p]
  /\ Goto(p, "replace")
  /\ UNCHANGED <<lock, cmd, held, wire, temp, result, now, issued, accepted, lost, retired>>
WriteTemp(p) ==
  /\ pc[p] = "write"
  /\ temp' = [temp EXCEPT ![p] = "complete"]
  /\ Goto(p, "replace")
  /\ UNCHANGED <<disk, lock, cmd, held, wire, result, now, issued, accepted, lost, retired>>

ReplaceFile(p) ==
  /\ pc[p] = "replace"
  /\ disk' = IF temp[p] = "complete" THEN held[p] ELSE BadFile
  /\ retired' = retired \cup (ChainsOf(disk) \ ChainsOf(disk'))
  /\ temp' = [temp EXCEPT ![p] = "none"]
  /\ Goto(p, "saved")
  /\ UNCHANGED <<lock, cmd, held, wire, result, now, issued, accepted, lost>>

(* A step of the save fails: the temporary file is removed and the error   *)
(* is reported.                                                            *)
SaveFails(p) ==
  /\ Saving(p)
  /\ temp' = [temp EXCEPT ![p] = "none"]
  /\ Finish(p, "CREDENTIAL_STORE_UNAVAILABLE")
  /\ Abandon(p)
  /\ UNCHANGED <<disk, cmd, held, now, issued, accepted, retired>>

(* Logout removes the file; a missing file is not an error. *)
Remove(p) ==
  /\ pc[p] = "remove"
  /\ \/ /\ disk' = NoFile
        /\ retired' = retired \cup ChainsOf(disk)
        /\ Goto(p, "removed")
        /\ UNCHANGED <<lock, wire, result>>
     \/ /\ Finish(p, "CREDENTIAL_STORE_UNAVAILABLE")
        /\ UNCHANGED <<disk, retired>>
  /\ UNCHANGED <<cmd, held, temp, now, issued, accepted, lost>>

(* The file is what p made of it, and only now does p release the flock    *)
(* and report; whether syncing the directory failed is not asked.          *)
Conclude(p) ==
  /\ \/ /\ pc[p] = "saved"
        /\ Finish(p, IF cmd[p] = "session" THEN "session" ELSE "healthy")
     \/ /\ pc[p] = "removed"
        /\ Finish(p, "missing")
  /\ UNCHANGED <<disk, cmd, held, temp, now, issued, accepted, lost, retired>>

-----------------------------------------------------------------------------
(* A process is killed anywhere, also between what it did to the file and  *)
(* its report: the kernel releases its flock.  A temporary file it leaves  *)
(* behind is opened by nobody and is forgotten.                            *)
Crash(p) ==
  /\ pc[p] \notin {"done", "crashed"}
  /\ Goto(p, "crashed")
  /\ lock' = IF lock = p THEN NoProc ELSE lock
  /\ wire' = [wire EXCEPT ![p] = NoRecord]
  /\ held' = [held EXCEPT ![p] = NoRecord]
  /\ temp' = [temp EXCEPT ![p] = "none"]
  /\ Abandon(p)
  /\ UNCHANGED <<disk, cmd, result, now, issued, accepted, retired>>

(* The token service stops accepting a refresh token: the account revoked  *)
(* it, or a request whose client had given up arrived after all and        *)
(* rotated it.                                                             *)
Revoke(t) ==
  /\ accepted' = accepted \ {t}
  /\ lost' = lost \cup {t[1]}
  /\ UNCHANGED <<disk, lock, cmd, pc, held, wire, temp, result, now, issued, retired>>

(* Time passes, but an answer is not received later than the client's      *)
(* timeout after its issue.                                                *)
Tick ==
  /\ now < MaxTime
  /\ \A p \in Proc : wire[p] \in Reply =>
        now < (wire[p].exp - wire[p].life) + Timeout
  /\ now' = now + 1
  /\ UNCHANGED <<disk, lock, cmd, pc, held, wire, temp, result, issued, accepted, lost, retired>>

(* The steps of p that its own code, the kernel and the HTTP client's      *)
(* timeout owe it.  A human at the prompt owes nothing, and a process that *)
(* waits for the flock is owed the flock, not an error.                    *)
Progress(p) ==
  \/ SignIn(p) \/ AcquireLock(p) \/ Load(p) \/ Doctor(p)
  \/ RemoteRefresh(p) \/ CallFails(p) \/ Receive(p)
  \/ CreateTemp(p) \/ WriteTemp(p) \/ ReplaceFile(p) \/ SaveFails(p) \/ Remove(p)
  \/ Conclude(p)

Next ==
  \/ \E p \in Proc : LoginPrompts(p) \/ LockFails(p) \/ Progress(p) \/ Crash(p)
  \/ \E t \in accepted : Revoke(t)
  \/ Tick

Spec == Init /\ [][Next]_vars

Fairness == \A p \in Proc : WF_vars(Progress(p))

FairSpec == Spec /\ Fairness
=============================================================================
