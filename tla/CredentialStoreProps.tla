------------------------- MODULE CredentialStoreProps -------------------------
(***************************************************************************)
(* What the stored credentials promise to the processes that share them.   *)
(***************************************************************************)
EXTENDS CredentialStore

(* Every variable stays in its domain. *)
TypeOK ==
  /\ disk \in Record \cup {NoFile, BadFile}
  /\ lock \in Proc \cup {NoProc}
  /\ cmd \in [Proc -> Commands]
  /\ pc \in [Proc -> Points]
  /\ held \in [Proc -> Record \cup {NoRecord}]
  /\ wire \in [Proc -> Reply \cup {NoRecord, Denied}]
  /\ temp \in [Proc -> {"none", "partial", "complete"}]
  /\ result \in [Proc -> Results]
  /\ now \in Nat
  /\ issued \in Nat
  /\ accepted \subseteq Nat \X Nat
  /\ lost \subseteq Nat
  /\ retired \subseteq Nat

Refreshing(p) == pc[p] \in {"request", "reply"} /\ cmd[p] # "login"

(* A refresh holds the flock across its network call, so the record it     *)
(* sent is still the file's when the answer arrives: no login, logout or   *)
(* other refresh slips in between (acquireSession, refreshCredentials).    *)
RefreshSeesCurrentFile == \A p \in Proc : Refreshing(p) => disk = held[p]

(* Two processes never spend one refresh token against each other: a       *)
(* process is told INVALID_REFRESH_TOKEN only when the account ended the   *)
(* chain, or when a rotated token was lost on its way to the file (a       *)
(* crash, a lost answer, a failed save, a dry run).                        *)
RejectedOnlyIfLost ==
  \A p \in Proc : result[p] = "INVALID_REFRESH_TOKEN" => held[p].chain \in lost

(* A success is durable: what login, status or a protected command         *)
(* reported is in the file until a later refresh of the chain, a login or  *)
(* a logout replaced it; no write in between was lost.                     *)
ReportedIsStored ==
  \A p \in Proc :
    /\ cmd[p] \in {"login", "status", "session"}
    /\ result[p] \in {"healthy", "session"}
    => \/ disk = held[p]
       \/ held[p].chain \in retired
       \/ disk \in Record /\ disk.chain = held[p].chain /\ disk.gen > held[p].gen

(* Credentials that left the file, by logout or by another login, never    *)
(* come back: a refresh that began before cannot restore them.             *)
RetiredNeverReturns == ChainsOf(disk) \cap retired = {}

(* What the file calls healthy the remote still accepts: the answer's      *)
(* latency, which the stored expiry does not count, stays inside the       *)
(* refresh window.                                                         *)
HealthyIsAlive == disk \in Record /\ Healthy(disk) => disk.exp > now

(* Every session handed to a command, whether it was read, came with the   *)
(* slowest answer or was stored first, carries a token that is alive at    *)
(* that moment.  The code does not look at the clock again after a save:   *)
(* only a save that lasted until the new record is no longer healthy can   *)
(* end with a dead token.                                                  *)
SavedTooLate(p) == pc[p] = "saved" /\ ~Healthy(held[p])
SessionIsAlive ==
  [][\A p \in Proc :
       result[p] = "none" /\ result'[p] = "session"
         => held'[p].exp > now \/ SavedTooLate(p)]_vars

(* Within one chain the file only moves to a later grant. *)
FileMovesForward ==
  [][(disk \in Record /\ disk' \in Record /\ disk' # disk /\ disk'.chain = disk.chain)
       => (disk'.gen > disk.gen)]_vars

(* Only the holder of the flock changes the file, a dry run or a doctor    *)
(* never does, and no write leaves a torn file.                            *)
OnlyWritersWrite ==
  [][disk' # disk => /\ disk' # BadFile
                     /\ \E p \in Proc : /\ lock = p
                                        /\ cmd[p] \in {"login", "status", "session", "logout"}]_vars

(* A refresh never forgets whom the chain belongs to, even when the new    *)
(* access token is opaque.                                                 *)
RefreshKeepsUser ==
  [][(disk \in Record /\ disk' \in Record /\ disk'.chain = disk.chain
       /\ KnownUser(disk) # NoUser) => (KnownUser(disk') # NoUser)]_vars

(* The store implements an atomic register: an invocation acts on the file *)
(* at most once, in one instant before its report.  A failure is reported  *)
(* only by one that has not acted and never will; one that has acted       *)
(* reports what it made of the file, unless it is killed first; and one    *)
(* that is killed has acted wholly or not at all.                          *)
Phase(p) ==
  IF pc[p] = "saved" THEN "stored"
  ELSE IF pc[p] = "removed" THEN "cleared"
  ELSE IF pc[p] \in {"done", "crashed"} THEN "ended" ELSE "running"
Register == INSTANCE CredentialRegister
  WITH file <- disk, report <- result, phase <- [p \in Proc |-> Phase(p)]
ImplementsRegister == Register!Spec

(* Every invocation that is past its prompts ends: the flock is always     *)
(* released, by a return or by the kernel, so no process waits forever.    *)
EveryInvocationEnds ==
  \A p \in Proc : pc[p] # "prompt" ~> pc[p] \in {"done", "crashed"}
=============================================================================
