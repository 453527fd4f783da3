------------------------- MODULE CredentialStoreProofs -------------------------
(***************************************************************************)
(* Proofs, for any number of processes and grants, of what MCCredential-   *)
(* Store checks on small instances.                                        *)
(***************************************************************************)
EXTENDS CredentialStoreProps, TLAPS

(* p may rely on the flock. *)
Critical(p) == pc[p] \in {"load", "remove", "saved", "removed"} \/ Saving(p) \/ Refreshing(p)

(* p knows a grant that is not in the file yet: it is on the wire to p or  *)
(* in p's memory.                                                          *)
OnWire(p) == pc[p] = "reply" /\ wire[p] # Denied
InMemory(p) == Saving(p) \/ (pc[p] = "lock" /\ cmd[p] = "login")
Carries(p) == OnWire(p) \/ InMemory(p)
ChainOf(p) == IF pc[p] = "reply" THEN wire[p].chain ELSE held[p].chain
GenOf(p) == IF pc[p] = "reply" THEN wire[p].gen ELSE held[p].gen

(* Where each command can be, and what its variables hold there. *)
PlaceInv ==
  \A p \in Proc :
    /\ pc[p] \in {"prompt", "signin"} => cmd[p] = "login"
    /\ pc[p] = "lock" => cmd[p] # "doctor"
    /\ pc[p] \in {"load", "request"} => cmd[p] \in {"status", "session", "dryrun"}
    /\ pc[p] = "reply" => cmd[p] \in {"login", "status", "session", "dryrun"}
    /\ Saving(p) \/ pc[p] = "saved" => cmd[p] \in {"login", "status", "session"}
    /\ pc[p] \in {"remove", "removed"} => cmd[p] = "logout"
    /\ pc[p] = "doctor" => cmd[p] = "doctor"
    /\ pc[p] = "reply" => wire[p] \in Reply \cup {Denied}
    /\ pc[p] # "reply" => wire[p] = NoRecord
    /\ pc[p] = "replace" => temp[p] = "complete"
    /\ pc[p] # "done" => result[p] = "none"
    /\ InMemory(p) => held[p] \in Record /\ held[p].refresh

LockInv == \A p \in Proc : Critical(p) => lock = p

BoundInv ==
  /\ retired \subseteq 0 .. issued
  /\ disk \in Record => disk.chain \in 0 .. issued /\ disk.gen \in 0 .. issued

RefreshInv == \A p \in Proc : Refreshing(p) => disk \in Record /\ disk = held[p]

(* What p has saved is the file's until p releases the flock. *)
SavedInv == \A p \in Proc : pc[p] = "saved" => disk \in Record /\ disk = held[p]

(* A carried grant is newer than the file's, or of a chain of its own. *)
GrantInv ==
  \A p \in Proc : Carries(p) =>
    /\ ChainOf(p) \in 0 .. issued
    /\ GenOf(p) \in 0 .. issued
    /\ cmd[p] = "login" => ChainOf(p) \notin retired \cup ChainsOf(disk)
    /\ cmd[p] # "login" => /\ disk \in Record
                           /\ ChainOf(p) = disk.chain
                           /\ GenOf(p) > disk.gen

LoginInv ==
  \A p, q \in Proc :
    p # q /\ Carries(p) /\ Carries(q) /\ cmd[p] = "login" /\ cmd[q] = "login"
      => ChainOf(p) # ChainOf(q)

(* The structural invariant: the safety of the file follows from it. *)
FileInv == /\ TypeOK
           /\ PlaceInv
           /\ LockInv
           /\ BoundInv
           /\ RefreshInv
           /\ SavedInv
           /\ GrantInv
           /\ LoginInv
           /\ RetiredNeverReturns

-----------------------------------------------------------------------------
(* The sentinels are no records, whatever the constants are. *)
LEMMA Sentinels ==
  /\ NoProc \notin Proc
  /\ NoFile \notin Record /\ BadFile \notin Record /\ NoFile # BadFile
  /\ NoRecord \notin Record /\ NoRecord \notin Reply
  /\ Denied \notin Reply /\ Denied # NoRecord
BY SentinelAssumption

(* The record built from an answer is a record. *)
LEMMA RecordOfType ==
  ASSUME now \in Nat, NEW r \in Reply, NEW u \in Subject
  PROVE  /\ RecordOf(r, u) \in Record
         /\ RecordOf(r, u).refresh
         /\ RecordOf(r, u).chain = r.chain
         /\ RecordOf(r, u).gen = r.gen
         /\ RecordOf(r, u).exp = r.exp
         /\ RecordOf(r, u).expires = now + r.life
BY DEF RecordOf, Record, Reply

LEMMA RefreshedUserType ==
  ASSUME NEW c, NEW r \in Record, NEW sub \in Subject
  PROVE  RefreshedUser(c, r, sub) \in Subject
BY DEF RefreshedUser, SubjectOr, KnownUser, Record, Subject

LEMMA LoginUserType ==
  ASSUME NEW r, NEW sub \in Subject
  PROVE  RefreshedUser("login", r, sub) \in Subject
BY DEF RefreshedUser, SubjectOr, Subject

(* Every variable keeps its type; PlaceInv says what held and wire are     *)
(* where the program uses them.                                            *)
LEMMA TypeStep ==
  ASSUME TypeOK, PlaceInv, RefreshInv, [Next]_vars
  PROVE  TypeOK'
<1> USE DEF TypeOK
<1>1. ASSUME NEW p \in Proc, LoginPrompts(p) PROVE TypeOK'
  BY <1>1 DEF LoginPrompts, Goto, Finish, Points, Results
<1>2. ASSUME NEW p \in Proc, LockFails(p) PROVE TypeOK'
  BY <1>2 DEF LockFails, Goto, Finish, Points, Results
<1>3. ASSUME NEW p \in Proc, SignIn(p) PROVE TypeOK'
  <2>1. issued' \in Nat /\ accepted' \subseteq Nat \X Nat
    BY <1>3 DEF SignIn, remote
  <2>2. wire' \in [Proc -> Reply \cup {NoRecord, Denied}]
    BY <1>3, TimingAssumption DEF SignIn, Reply, remote
  <2>3. QED
    BY <1>3, <2>1, <2>2 DEF SignIn, Goto, Points
<1>4. ASSUME NEW p \in Proc, AcquireLock(p) PROVE TypeOK'
  BY <1>4 DEF AcquireLock, UnderLock, Goto, Points
<1>5. ASSUME NEW p \in Proc, Load(p) PROVE TypeOK'
  BY <1>5 DEF Load, Goto, Finish, Points, Results, StateOf
<1>6. ASSUME NEW p \in Proc, Doctor(p) PROVE TypeOK'
  BY <1>6 DEF Doctor, Goto, Finish, Points, Results, StateOf
<1>7. ASSUME NEW p \in Proc, RemoteRefresh(p) PROVE TypeOK'
  <2>1. held[p] \in Record
    BY <1>7 DEF RemoteRefresh, RefreshInv, Refreshing, PlaceInv
  <2>2. held[p].chain \in Nat
    BY <2>1 DEF Record
  <2>3. issued' \in Nat /\ accepted' \subseteq Nat \X Nat
    BY <1>7, <2>2 DEF RemoteRefresh, remote
  <2>4. wire' \in [Proc -> Reply \cup {NoRecord, Denied}]
    BY <1>7, <2>2, TimingAssumption DEF RemoteRefresh, Reply, remote
  <2>5. QED
    BY <1>7, <2>3, <2>4 DEF RemoteRefresh, Goto, Points
<1>8. ASSUME NEW p \in Proc, CallFails(p) PROVE TypeOK'
  <2>1. lost' \subseteq Nat
    BY <1>8 DEF CallFails, Abandon, ChainsOf, Record
  <2>2. QED
    BY <1>8, <2>1 DEF CallFails, Goto, Finish, Points, Results
<1>9. ASSUME NEW p \in Proc, Receive(p) PROVE TypeOK'
  <2>1. lost' \subseteq Nat
    BY <1>9 DEF Receive, Abandon, ChainsOf, Record
  <2>2. held' \in [Proc -> Record \cup {NoRecord}]
    <3>1. CASE held' = held
      BY <3>1
    <3>2. CASE wire[p] # Denied /\ UsableLifetime(wire[p].life)
      <4>1. wire[p] \in Reply /\ wire[p].sub \in Subject
        BY <1>9, <3>2 DEF Receive, PlaceInv, Reply
      <4>2. RefreshedUser(cmd[p], held[p], wire[p].sub) \in Subject
        <5>1. CASE cmd[p] = "login"
          BY <5>1, <4>1, LoginUserType
        <5>2. CASE cmd[p] # "login"
          BY <5>2, <1>9, <4>1, RefreshedUserType DEF Receive, RefreshInv, Refreshing
        <5>3. QED
          BY <5>1, <5>2
      <4>3. RecordOf(wire[p], RefreshedUser(cmd[p], held[p], wire[p].sub)) \in Record
        BY <4>1, <4>2, RecordOfType
      <4>4. QED
        BY <1>9, <3>2, <4>3 DEF Receive
    <3>3. QED
      BY <1>9, <3>1, <3>2 DEF Receive
  <2>3. QED
    BY <1>9, <2>1, <2>2 DEF Receive, Goto, Finish, Points, Results, AfterAnswer
<1>10. ASSUME NEW p \in Proc, CreateTemp(p) \/ WriteTemp(p) PROVE TypeOK'
  BY <1>10 DEF CreateTemp, WriteTemp, Goto, Points
<1>11. ASSUME NEW p \in Proc, ReplaceFile(p) PROVE TypeOK'
  <2>1. held[p] \in Record /\ disk' = held[p]
    BY <1>11 DEF ReplaceFile, PlaceInv, InMemory, Saving
  <2>2. retired' \subseteq Nat
    BY <1>11 DEF ReplaceFile, ChainsOf, Record
  <2>3. QED
    BY <1>11, <2>1, <2>2 DEF ReplaceFile, Goto, Finish, Points, Results
<1>12. ASSUME NEW p \in Proc, SaveFails(p) PROVE TypeOK'
  <2>1. lost' \subseteq Nat
    BY <1>12 DEF SaveFails, Abandon, ChainsOf, Record
  <2>2. QED
    BY <1>12, <2>1 DEF SaveFails, Goto, Finish, Points, Results
<1>13. ASSUME NEW p \in Proc, Remove(p) PROVE TypeOK'
  <2>1. retired' \subseteq Nat
    BY <1>13 DEF Remove, ChainsOf, Record
  <2>2. QED
    BY <1>13, <2>1 DEF Remove, Goto, Finish, Points, Results
<1>14. ASSUME NEW p \in Proc, Conclude(p) PROVE TypeOK'
  BY <1>14 DEF Conclude, Goto, Finish, Points, Results
<1>15. ASSUME NEW p \in Proc, Crash(p) PROVE TypeOK'
  <2>1. lost' \subseteq Nat
    BY <1>15 DEF Crash, Abandon, ChainsOf, Record
  <2>2. QED
    BY <1>15, <2>1 DEF Crash, Goto, Points
<1>16. ASSUME NEW t \in accepted, Revoke(t) PROVE TypeOK'
  BY <1>16 DEF Revoke
<1>17. ASSUME Tick PROVE TypeOK'
  BY <1>17 DEF Tick
<1>18. CASE UNCHANGED vars
  BY <1>18 DEF vars
<1>19. QED
  BY <1>1, <1>2, <1>3, <1>4, <1>5, <1>6, <1>7, <1>8, <1>9, <1>10, <1>11, <1>12,
     <1>13, <1>14, <1>15, <1>16, <1>17, <1>18 DEF Next, Progress

(* Where each command can be and what it holds there. *)
LEMMA PlaceStep ==
  ASSUME TypeOK, PlaceInv, RefreshInv, [Next]_vars
  PROVE  PlaceInv'
<1>0. TypeOK'
  BY TypeStep
<1> USE DEF TypeOK, PlaceInv, Saving, InMemory, Commands
<1>1. ASSUME NEW p \in Proc, LoginPrompts(p) PROVE PlaceInv'
  BY <1>1, Sentinels DEF LoginPrompts, Goto, Finish
<1>2. ASSUME NEW p \in Proc, LockFails(p) PROVE PlaceInv'
  BY <1>2, Sentinels DEF LockFails, Goto, Finish
<1>3. ASSUME NEW p \in Proc, SignIn(p) PROVE PlaceInv'
  <2>1. wire'[p] \in Reply \cup {Denied}
    BY <1>3, TimingAssumption DEF SignIn, Reply, remote
  <2>2. QED
    BY <1>3, <2>1 DEF SignIn, Goto
<1>4. ASSUME NEW p \in Proc, AcquireLock(p) PROVE PlaceInv'
  BY <1>4, Sentinels DEF AcquireLock, UnderLock, Goto
<1>5. ASSUME NEW p \in Proc, Load(p) PROVE PlaceInv'
  BY <1>5, Sentinels DEF Load, Goto, Finish
<1>6. ASSUME NEW p \in Proc, Doctor(p) PROVE PlaceInv'
  BY <1>6, Sentinels DEF Doctor, Goto, Finish
<1>7. ASSUME NEW p \in Proc, RemoteRefresh(p) PROVE PlaceInv'
  <2>1. held[p].chain \in Nat
    BY <1>7 DEF RemoteRefresh, RefreshInv, Refreshing, Record
  <2>2. wire'[p] \in Reply \cup {Denied}
    BY <1>7, <2>1, TimingAssumption DEF RemoteRefresh, Reply, remote
  <2>3. QED
    BY <1>7, <2>2 DEF RemoteRefresh, Goto
<1>8. ASSUME NEW p \in Proc, CallFails(p) PROVE PlaceInv'
  BY <1>8, Sentinels DEF CallFails, Goto, Finish
<1>9. ASSUME NEW p \in Proc, Receive(p) PROVE PlaceInv'
  <2>1. CASE wire[p] # Denied /\ UsableLifetime(wire[p].life)
    <3>1. wire[p] \in Reply /\ wire[p].sub \in Subject
      BY <1>9, <2>1 DEF Receive, Reply
    <3>2. held'[p] = RecordOf(wire[p], RefreshedUser(cmd[p], held[p], wire[p].sub))
      BY <1>9, <2>1 DEF Receive
    <3>3. RefreshedUser(cmd[p], held[p], wire[p].sub) \in Subject
      BY <1>9, <3>1, LoginUserType, RefreshedUserType DEF Receive, RefreshInv, Refreshing
    <3>4. held'[p] \in Record /\ held'[p].refresh
      BY <3>1, <3>2, <3>3, RecordOfType
    <3>5. QED
      BY <1>9, <2>1, <3>4 DEF Receive, Goto, Finish, AfterAnswer
  <2>2. CASE wire[p] = Denied \/ ~UsableLifetime(wire[p].life)
    BY <1>9, <2>2 DEF Receive, Goto, Finish
  <2>3. QED
    BY <2>1, <2>2
<1>10. ASSUME NEW p \in Proc, CreateTemp(p) PROVE PlaceInv'
  BY <1>10, Sentinels DEF CreateTemp, Goto
<1>11. ASSUME NEW p \in Proc, WriteTemp(p) PROVE PlaceInv'
  BY <1>11, Sentinels DEF WriteTemp, Goto
<1>12. ASSUME NEW p \in Proc, ReplaceFile(p) PROVE PlaceInv'
  BY <1>12, Sentinels DEF ReplaceFile, Goto, Finish
<1>13. ASSUME NEW p \in Proc, SaveFails(p) PROVE PlaceInv'
  BY <1>13, Sentinels DEF SaveFails, Goto, Finish
<1>14. ASSUME NEW p \in Proc, Remove(p) PROVE PlaceInv'
  BY <1>14, Sentinels DEF Remove, Goto, Finish
<1>15. ASSUME NEW p \in Proc, Conclude(p) PROVE PlaceInv'
  BY <1>15, Sentinels DEF Conclude, Goto, Finish
<1>16. ASSUME NEW p \in Proc, Crash(p) PROVE PlaceInv'
  BY <1>16, Sentinels DEF Crash, Goto
<1>17. ASSUME NEW t \in accepted, Revoke(t) PROVE PlaceInv'
  BY <1>17 DEF Revoke
<1>18. ASSUME Tick PROVE PlaceInv'
  BY <1>18 DEF Tick
<1>19. CASE UNCHANGED vars
  BY <1>19 DEF vars
<1>20. QED
  BY <1>1, <1>2, <1>3, <1>4, <1>5, <1>6, <1>7, <1>8, <1>9, <1>10, <1>11, <1>12,
     <1>13, <1>14, <1>15, <1>16, <1>17, <1>18, <1>19 DEF Next, Progress

(* The flock is held wherever a command relies on it. *)
LEMMA LockStep ==
  ASSUME TypeOK, PlaceInv, LockInv, [Next]_vars
  PROVE  LockInv'
<1> USE DEF TypeOK, PlaceInv, LockInv, Critical, Refreshing, Saving, Commands
<1>1. ASSUME NEW p \in Proc, LoginPrompts(p) PROVE LockInv'
  BY <1>1, Sentinels DEF LoginPrompts, Goto, Finish
<1>2. ASSUME NEW p \in Proc, LockFails(p) PROVE LockInv'
  BY <1>2, Sentinels DEF LockFails, Goto, Finish
<1>3. ASSUME NEW p \in Proc, SignIn(p) PROVE LockInv'
  BY <1>3, Sentinels DEF SignIn, Goto, remote
<1>4. ASSUME NEW p \in Proc, AcquireLock(p) PROVE LockInv'
  BY <1>4, Sentinels DEF AcquireLock, UnderLock, Goto, LockIsFree
<1>5. ASSUME NEW p \in Proc, Load(p) PROVE LockInv'
  BY <1>5, Sentinels DEF Load, Goto, Finish
<1>6. ASSUME NEW p \in Proc, Doctor(p) PROVE LockInv'
  BY <1>6, Sentinels DEF Doctor, Goto, Finish
<1>7. ASSUME NEW p \in Proc, RemoteRefresh(p) PROVE LockInv'
  BY <1>7, Sentinels DEF RemoteRefresh, Goto, remote
<1>8. ASSUME NEW p \in Proc, CallFails(p) PROVE LockInv'
  BY <1>8, Sentinels DEF CallFails, Goto, Finish
<1>9. ASSUME NEW p \in Proc, Receive(p) PROVE LockInv'
  BY <1>9, Sentinels DEF Receive, Goto, Finish, AfterAnswer
<1>10. ASSUME NEW p \in Proc, CreateTemp(p) PROVE LockInv'
  BY <1>10, Sentinels DEF CreateTemp, Goto
<1>11. ASSUME NEW p \in Proc, WriteTemp(p) PROVE LockInv'
  BY <1>11, Sentinels DEF WriteTemp, Goto
<1>12. ASSUME NEW p \in Proc, ReplaceFile(p) PROVE LockInv'
  BY <1>12, Sentinels DEF ReplaceFile, Goto, Finish
<1>13. ASSUME NEW p \in Proc, SaveFails(p) PROVE LockInv'
  BY <1>13, Sentinels DEF SaveFails, Goto, Finish
<1>14. ASSUME NEW p \in Proc, Remove(p) PROVE LockInv'
  BY <1>14, Sentinels DEF Remove, Goto, Finish
<1>15. ASSUME NEW p \in Proc, Conclude(p) PROVE LockInv'
  BY <1>15, Sentinels DEF Conclude, Goto, Finish
<1>16. ASSUME NEW p \in Proc, Crash(p) PROVE LockInv'
  BY <1>16, Sentinels DEF Crash, Goto
<1>17. ASSUME NEW t \in accepted, Revoke(t) PROVE LockInv'
  BY <1>17 DEF Revoke
<1>18. ASSUME Tick PROVE LockInv'
  BY <1>18 DEF Tick
<1>19. CASE UNCHANGED vars
  BY <1>19 DEF vars
<1>20. QED
  BY <1>1, <1>2, <1>3, <1>4, <1>5, <1>6, <1>7, <1>8, <1>9, <1>10, <1>11, <1>12,
     <1>13, <1>14, <1>15, <1>16, <1>17, <1>18, <1>19 DEF Next, Progress

(* Chains and grants in the file were issued before. *)
LEMMA BoundStep ==
  ASSUME TypeOK, PlaceInv, BoundInv, GrantInv, [Next]_vars
  PROVE  BoundInv'
<1> USE DEF TypeOK, BoundInv
<1>1. ASSUME UNCHANGED <<disk, retired>>, issued' \in Nat, issued <= issued' PROVE BoundInv'
  BY <1>1
<1>2. ASSUME NEW p \in Proc, SignIn(p) \/ RemoteRefresh(p) PROVE BoundInv'
  BY <1>1, <1>2 DEF SignIn, RemoteRefresh, remote
<1>3. ASSUME NEW p \in Proc, ReplaceFile(p) PROVE BoundInv'
  <2>1. disk' = held[p] /\ held[p] \in Record /\ Carries(p) /\ pc[p] = "replace"
    BY <1>3 DEF ReplaceFile, PlaceInv, InMemory, Saving, Carries
  <2>2. held[p].chain \in 0 .. issued /\ held[p].gen \in 0 .. issued
    BY <2>1 DEF GrantInv, ChainOf, GenOf
  <2>3. retired' \subseteq 0 .. issued
    BY <1>3 DEF ReplaceFile, ChainsOf
  <2>4. QED
    BY <1>3, <2>1, <2>2, <2>3 DEF ReplaceFile
<1>4. ASSUME NEW p \in Proc, Remove(p) PROVE BoundInv'
  BY <1>4, Sentinels DEF Remove, ChainsOf
<1>5. ASSUME NEW p \in Proc,
             \/ LoginPrompts(p) \/ LockFails(p) \/ AcquireLock(p) \/ Load(p) \/ Doctor(p)
             \/ CallFails(p) \/ Receive(p) \/ CreateTemp(p) \/ WriteTemp(p)
             \/ SaveFails(p) \/ Conclude(p) \/ Crash(p)
      PROVE  BoundInv'
  BY <1>1, <1>5 DEF LoginPrompts, LockFails, AcquireLock, Load, Doctor, CallFails,
     Receive, CreateTemp, WriteTemp, SaveFails, Conclude, Crash
<1>6. ASSUME NEW t \in accepted, Revoke(t) PROVE BoundInv'
  BY <1>1, <1>6 DEF Revoke
<1>7. CASE Tick \/ UNCHANGED vars
  BY <1>1, <1>7 DEF Tick, vars
<1>8. QED
  BY <1>2, <1>3, <1>4, <1>5, <1>6, <1>7 DEF Next, Progress

(* While p refreshes, p holds the flock, so nobody else moves the file. *)
LEMMA RefreshStep ==
  ASSUME TypeOK, PlaceInv, LockInv, RefreshInv, [Next]_vars
  PROVE  RefreshInv'
<1> USE DEF TypeOK, RefreshInv, Refreshing
<1>1. ASSUME NEW p \in Proc, SignIn(p) PROVE RefreshInv'
  BY <1>1 DEF SignIn, Goto, PlaceInv
<1>2. ASSUME NEW p \in Proc, Load(p) PROVE RefreshInv'
  BY <1>2 DEF Load, Goto, Finish
<1>3. ASSUME NEW p \in Proc, RemoteRefresh(p) PROVE RefreshInv'
  BY <1>3 DEF RemoteRefresh, Goto
<1>4. ASSUME NEW p \in Proc, Receive(p) PROVE RefreshInv'
  BY <1>4 DEF Receive, Goto, Finish, AfterAnswer
<1>5. ASSUME NEW p \in Proc, ReplaceFile(p) \/ Remove(p) PROVE RefreshInv'
  <2>1. Critical(p) /\ pc'[p] \notin {"request", "reply"} /\ UNCHANGED <<held, cmd>>
    BY <1>5 DEF ReplaceFile, Remove, Critical, Saving, Goto, Finish
  <2>2. \A q \in Proc : q # p => ~Refreshing(q) /\ pc'[q] = pc[q]
    BY <1>5, <2>1 DEF LockInv, Critical, ReplaceFile, Remove, Goto, Finish
  <2>3. QED
    BY <2>1, <2>2
<1>6. ASSUME NEW p \in Proc,
             \/ LoginPrompts(p) \/ LockFails(p) \/ AcquireLock(p) \/ Doctor(p)
             \/ CallFails(p) \/ CreateTemp(p) \/ WriteTemp(p) \/ SaveFails(p) \/ Conclude(p)
      PROVE  RefreshInv'
  BY <1>6 DEF LoginPrompts, LockFails, AcquireLock, UnderLock, Doctor, CallFails,
     CreateTemp, WriteTemp, SaveFails, Conclude, Goto, Finish
<1>7. ASSUME NEW p \in Proc, Crash(p) PROVE RefreshInv'
  BY <1>7 DEF Crash, Goto
<1>8. ASSUME NEW t \in accepted, Revoke(t) PROVE RefreshInv'
  BY <1>8 DEF Revoke
<1>9. CASE Tick \/ UNCHANGED vars
  BY <1>9 DEF Tick, vars
<1>10. QED
  BY <1>1, <1>2, <1>3, <1>4, <1>5, <1>6, <1>7, <1>8, <1>9 DEF Next, Progress

(* Nobody else moves the file between p's save and p's report. *)
LEMMA SavedStep ==
  ASSUME TypeOK, PlaceInv, LockInv, SavedInv, [Next]_vars
  PROVE  SavedInv'
<1> USE DEF TypeOK, SavedInv
<1>1. ASSUME NEW p \in Proc, ReplaceFile(p) PROVE SavedInv'
  <2>1. Critical(p) /\ disk' = held[p] /\ held[p] \in Record /\ held' = held
    BY <1>1 DEF ReplaceFile, Critical, Saving, PlaceInv, InMemory
  <2>2. \A q \in Proc : q # p => pc[q] # "saved" /\ pc'[q] = pc[q]
    BY <1>1, <2>1 DEF LockInv, Critical, ReplaceFile, Goto
  <2>3. QED
    BY <2>1, <2>2
<1>2. ASSUME NEW p \in Proc, Remove(p) PROVE SavedInv'
  <2>1. Critical(p) /\ pc'[p] # "saved"
    BY <1>2 DEF Remove, Critical, Goto, Finish
  <2>2. \A q \in Proc : q # p => pc[q] # "saved" /\ pc'[q] = pc[q]
    BY <1>2, <2>1 DEF LockInv, Critical, Remove, Goto, Finish
  <2>3. QED
    BY <2>1, <2>2
<1>3. ASSUME NEW p \in Proc, Load(p) \/ Receive(p) \/ Crash(p) PROVE SavedInv'
  <2>1. pc'[p] # "saved" /\ disk' = disk
    BY <1>3 DEF Load, Receive, Crash, Goto, Finish, AfterAnswer
  <2>2. \A q \in Proc : q # p => pc'[q] = pc[q] /\ held'[q] = held[q]
    BY <1>3 DEF Load, Receive, Crash, Goto, Finish
  <2>3. QED
    BY <2>1, <2>2
<1>4. ASSUME NEW p \in Proc,
             \/ LoginPrompts(p) \/ LockFails(p) \/ SignIn(p) \/ AcquireLock(p) \/ Doctor(p)
             \/ RemoteRefresh(p) \/ CallFails(p) \/ CreateTemp(p) \/ WriteTemp(p)
             \/ SaveFails(p) \/ Conclude(p)
      PROVE  SavedInv'
  BY <1>4 DEF LoginPrompts, LockFails, SignIn, AcquireLock, UnderLock, Doctor, RemoteRefresh,
     CallFails, CreateTemp, WriteTemp, SaveFails, Conclude, Goto, Finish
<1>5. CASE (\E t \in accepted : Revoke(t)) \/ Tick \/ UNCHANGED vars
  BY <1>5 DEF Revoke, Tick, vars
<1>6. QED
  BY <1>1, <1>2, <1>3, <1>4, <1>5 DEF Next, Progress

(* Retired chains are never carried by a refresh, and no login reuses one. *)
LEMMA RetiredStep ==
  ASSUME TypeOK, PlaceInv, GrantInv, RetiredNeverReturns, [Next]_vars
  PROVE  RetiredNeverReturns'
<1> USE DEF TypeOK, RetiredNeverReturns
<1>1. ASSUME UNCHANGED <<disk, retired>> PROVE RetiredNeverReturns'
  BY <1>1 DEF ChainsOf
<1>2. ASSUME NEW p \in Proc, ReplaceFile(p) PROVE RetiredNeverReturns'
  <2>1. disk' = held[p] /\ held[p] \in Record /\ Carries(p) /\ pc[p] = "replace"
    BY <1>2 DEF ReplaceFile, PlaceInv, InMemory, Saving, Carries
  <2>2. ChainsOf(disk)' = {held[p].chain}
    BY <2>1 DEF ChainsOf
  <2>3. held[p].chain \notin retired
    BY <2>1 DEF GrantInv, ChainOf, ChainsOf
  <2>4. retired' = retired \cup (ChainsOf(disk) \ ChainsOf(disk'))
    BY <1>2 DEF ReplaceFile
  <2>5. QED
    BY <2>2, <2>3, <2>4
<1>3. ASSUME NEW p \in Proc, Remove(p) PROVE RetiredNeverReturns'
  BY <1>1, <1>3, Sentinels DEF Remove, ChainsOf
<1>4. ASSUME NEW p \in Proc,
             \/ LoginPrompts(p) \/ LockFails(p) \/ AcquireLock(p) \/ Load(p) \/ Doctor(p)
             \/ SignIn(p) \/ RemoteRefresh(p) \/ CallFails(p) \/ Receive(p)
             \/ CreateTemp(p) \/ WriteTemp(p) \/ SaveFails(p) \/ Conclude(p) \/ Crash(p)
      PROVE  RetiredNeverReturns'
  BY <1>1, <1>4 DEF LoginPrompts, LockFails, AcquireLock, Load, Doctor, SignIn,
     RemoteRefresh, CallFails, Receive, CreateTemp, WriteTemp, SaveFails, Conclude, Crash
<1>5. ASSUME NEW t \in accepted, Revoke(t) PROVE RetiredNeverReturns'
  BY <1>1, <1>5 DEF Revoke
<1>6. CASE Tick \/ UNCHANGED vars
  BY <1>1, <1>6 DEF Tick, vars
<1>7. QED
  BY <1>2, <1>3, <1>4, <1>5, <1>6 DEF Next, Progress

(* A refresh that carries a grant holds the flock. *)
LEMMA CarriesCritical ==
  ASSUME NEW p \in Proc, Carries(p), cmd[p] # "login"
  PROVE  Critical(p)
BY DEF Carries, OnWire, InMemory, Critical, Refreshing

(* Grants are numbered once, so a carried one is newer than the file's or  *)
(* opens a chain that no other process carries.                            *)
LEMMA GrantStep ==
  ASSUME TypeOK, PlaceInv, LockInv, BoundInv, RefreshInv, GrantInv, LoginInv, [Next]_vars
  PROVE  GrantInv' /\ LoginInv'
<1> DEFINE SameCargo(q) == Carries(q)' => /\ Carries(q)
                                          /\ ChainOf(q)' = ChainOf(q)
                                          /\ GenOf(q)' = GenOf(q)
<1>1. ASSUME UNCHANGED <<disk, retired, issued, cmd>>,
             \A q \in Proc : SameCargo(q)
      PROVE  GrantInv' /\ LoginInv'
  BY <1>1 DEF GrantInv, LoginInv, ChainsOf
<1>2. ASSUME NEW p \in Proc, NEW q \in Proc, q # p,
             pc'[q] = pc[q], wire'[q] = wire[q], held'[q] = held[q], UNCHANGED cmd
      PROVE  SameCargo(q)
  BY <1>2 DEF Carries, OnWire, InMemory, Saving, ChainOf, GenOf
<1>3. ASSUME NEW p \in Proc, SignIn(p) PROVE GrantInv' /\ LoginInv'
  <2>1. \A q \in Proc : q # p => SameCargo(q)
    BY <1>2, <1>3 DEF SignIn, Goto, TypeOK
  <2>2. CASE issued' = issued
    <3>1. wire'[p] = Denied
      BY <1>3, <2>2 DEF SignIn, TypeOK
    <3>2. SameCargo(p)
      BY <1>3, <3>1 DEF SignIn, Goto, TypeOK, Carries, OnWire, InMemory, Saving
    <3>3. UNCHANGED <<disk, retired, cmd>>
      BY <1>3 DEF SignIn
    <3>4. QED
      BY <1>1, <2>1, <2>2, <3>2, <3>3
  <2>3. CASE issued' # issued
    <3>1. /\ issued' = issued + 1 /\ cmd[p] = "login"
          /\ ChainOf(p)' = issued + 1 /\ GenOf(p)' = issued + 1
      BY <1>3, <2>3 DEF SignIn, Goto, TypeOK, PlaceInv, ChainOf, GenOf, remote
    <3>2. UNCHANGED <<disk, retired, cmd>>
      BY <1>3 DEF SignIn
    <3>3. issued + 1 \notin retired \cup ChainsOf(disk)
      BY DEF BoundInv, ChainsOf, TypeOK
    <3>4. \A q \in Proc : Carries(q) => ChainOf(q) \in 0 .. issued /\ GenOf(q) \in 0 .. issued
      BY DEF GrantInv
    <3>5. GrantInv'
      BY <2>1, <3>1, <3>2, <3>3, <3>4 DEF GrantInv, ChainsOf, TypeOK
    <3>6. LoginInv'
      BY <2>1, <3>1, <3>2, <3>4 DEF LoginInv, TypeOK
    <3>7. QED
      BY <3>5, <3>6
  <2>4. QED
    BY <2>2, <2>3
<1>4. ASSUME NEW p \in Proc, RemoteRefresh(p) PROVE GrantInv' /\ LoginInv'
  <2>1. \A q \in Proc : q # p => SameCargo(q)
    BY <1>2, <1>4 DEF RemoteRefresh, Goto, TypeOK
  <2>2. CASE issued' = issued
    <3>1. wire'[p] = Denied
      BY <1>4, <2>2 DEF RemoteRefresh, TypeOK
    <3>2. SameCargo(p)
      BY <1>4, <3>1 DEF RemoteRefresh, Goto, TypeOK, Carries, OnWire, InMemory, Saving
    <3>3. UNCHANGED <<disk, retired, cmd>>
      BY <1>4 DEF RemoteRefresh
    <3>4. QED
      BY <1>1, <2>1, <2>2, <3>2, <3>3
  <2>3. CASE issued' # issued
    <3>1. disk \in Record /\ held[p] = disk
      BY <1>4 DEF RemoteRefresh, PlaceInv, RefreshInv, Refreshing
    <3>2. /\ issued' = issued + 1 /\ cmd[p] # "login"
          /\ ChainOf(p)' = disk.chain /\ GenOf(p)' = issued + 1
      BY <1>4, <2>3, <3>1 DEF RemoteRefresh, Goto, TypeOK, PlaceInv, ChainOf, GenOf, remote
    <3>3. UNCHANGED <<disk, retired, cmd>>
      BY <1>4 DEF RemoteRefresh
    <3>4. disk.chain \in 0 .. issued /\ disk.gen \in 0 .. issued
      BY <3>1 DEF BoundInv
    <3>5. GrantInv'
      BY <2>1, <3>1, <3>2, <3>3, <3>4 DEF GrantInv, ChainsOf, TypeOK
    <3>6. LoginInv'
      BY <2>1, <3>2, <3>3 DEF LoginInv
    <3>7. QED
      BY <3>5, <3>6
  <2>4. QED
    BY <2>2, <2>3
<1>5. ASSUME NEW p \in Proc, Receive(p) PROVE GrantInv' /\ LoginInv'
  <2>1. UNCHANGED <<disk, retired, issued, cmd>>
    BY <1>5 DEF Receive
  <2>2. \A q \in Proc : q # p => SameCargo(q)
    BY <1>2, <1>5 DEF Receive, Goto, Finish, TypeOK
  <2>3. SameCargo(p)
    <3>1. CASE pc'[p] = "done"
      BY <3>1 DEF Carries, OnWire, InMemory, Saving
    <3>2. CASE pc'[p] # "done"
      <4>1. wire[p] # Denied /\ wire[p] \in Reply /\ pc[p] = "reply"
        BY <1>5, <3>2 DEF Receive, Goto, Finish, TypeOK, PlaceInv
      <4>2. pc'[p] \in {"lock", "create"}
            /\ held'[p] = RecordOf(wire[p], RefreshedUser(cmd[p], held[p], wire[p].sub))
        BY <1>5, <3>2 DEF Receive, Goto, Finish, TypeOK, AfterAnswer
      <4>3. held'[p].chain = wire[p].chain /\ held'[p].gen = wire[p].gen
        BY <4>2 DEF RecordOf
      <4>4. QED
        BY <4>1, <4>2, <4>3 DEF Carries, OnWire, ChainOf, GenOf
    <3>3. QED
      BY <3>1, <3>2
  <2>4. QED
    BY <1>1, <2>1, <2>2, <2>3
<1>6. ASSUME NEW p \in Proc, ReplaceFile(p) PROVE GrantInv' /\ LoginInv'
  <2>1. /\ pc[p] = "replace" /\ Saving(p) /\ Carries(p) /\ Critical(p)
        /\ disk' = held[p] /\ held[p] \in Record /\ ChainOf(p) = held[p].chain
    BY <1>6 DEF ReplaceFile, PlaceInv, Saving, InMemory, Carries, Critical, ChainOf
  <2>2. UNCHANGED <<issued, cmd>>
    BY <1>6 DEF ReplaceFile
  <2>3. \A q \in Proc : SameCargo(q)
    BY <1>2, <1>6 DEF ReplaceFile, Goto, Finish, TypeOK, Carries, OnWire, InMemory, Saving
  <2>4. ~Carries(p)'
    BY <1>6 DEF ReplaceFile, Goto, Finish, TypeOK, Carries, OnWire, InMemory, Saving
  <2>5. \A q \in Proc : Carries(q)' => cmd[q] = "login"
    BY <2>1, <2>3, <2>4, CarriesCritical DEF LockInv
  <2>6. retired' \cup ChainsOf(disk)' \subseteq retired \cup ChainsOf(disk) \cup {ChainOf(p)}
    BY <1>6, <2>1 DEF ReplaceFile, ChainsOf
  <2>7. ASSUME NEW q \in Proc, Carries(q)' PROVE ChainOf(q) \notin retired' \cup ChainsOf(disk)'
    <3>1. Carries(q) /\ cmd[q] = "login" /\ q # p
      BY <2>3, <2>4, <2>5, <2>7
    <3>2. ChainOf(q) \notin retired \cup ChainsOf(disk)
      BY <3>1 DEF GrantInv
    <3>3. ChainOf(p) # ChainOf(q)
      <4>1. CASE cmd[p] = "login"
        BY <2>1, <3>1, <4>1 DEF LoginInv
      <4>2. CASE cmd[p] # "login"
        BY <2>1, <3>2, <4>2 DEF GrantInv, ChainsOf
      <4>3. QED
        BY <4>1, <4>2
    <3>4. QED
      BY <2>6, <3>2, <3>3
  <2>8. GrantInv'
    BY <2>2, <2>3, <2>5, <2>7 DEF GrantInv
  <2>9. LoginInv'
    BY <2>2, <2>3 DEF LoginInv
  <2>10. QED
    BY <2>8, <2>9
<1>7. ASSUME NEW p \in Proc, Remove(p) PROVE GrantInv' /\ LoginInv'
  <2>1. Critical(p) /\ cmd[p] = "logout"
    BY <1>7 DEF Remove, Critical, PlaceInv
  <2>2. UNCHANGED <<issued, cmd>>
    BY <1>7 DEF Remove
  <2>3. \A q \in Proc : SameCargo(q)
    BY <1>2, <1>7 DEF Remove, Goto, Finish, TypeOK, Carries, OnWire, InMemory, Saving
  <2>4. \A q \in Proc : Carries(q)' => cmd[q] = "login"
    <3>1. ~Carries(p)
      BY <1>7 DEF Remove, Carries, OnWire, InMemory, Saving
    <3>2. QED
      BY <2>1, <2>3, <3>1, CarriesCritical DEF LockInv
  <2>5. retired' \cup ChainsOf(disk)' \subseteq retired \cup ChainsOf(disk)
    BY <1>7, Sentinels DEF Remove, ChainsOf
  <2>6. GrantInv'
    BY <2>2, <2>3, <2>4, <2>5 DEF GrantInv
  <2>7. LoginInv'
    BY <2>2, <2>3 DEF LoginInv
  <2>8. QED
    BY <2>6, <2>7
<1>8. ASSUME NEW p \in Proc, AcquireLock(p) PROVE GrantInv' /\ LoginInv'
  <2>1. \A q \in Proc : SameCargo(q)
    BY <1>2, <1>8 DEF AcquireLock, UnderLock, Goto, TypeOK, Carries, OnWire, InMemory, Saving,
       ChainOf, GenOf
  <2>2. QED
    BY <1>1, <1>8, <2>1 DEF AcquireLock
<1>9. ASSUME NEW p \in Proc, CreateTemp(p) \/ WriteTemp(p) PROVE GrantInv' /\ LoginInv'
  <2>1. \A q \in Proc : SameCargo(q)
    BY <1>2, <1>9 DEF CreateTemp, WriteTemp, Goto, TypeOK, Carries, OnWire, InMemory, Saving,
       ChainOf, GenOf
  <2>2. QED
    BY <1>1, <1>9, <2>1 DEF CreateTemp, WriteTemp
<1>10. ASSUME NEW p \in Proc,
              \/ LoginPrompts(p) \/ LockFails(p) \/ Load(p) \/ Doctor(p)
              \/ CallFails(p) \/ SaveFails(p) \/ Conclude(p) \/ Crash(p)
       PROVE  GrantInv' /\ LoginInv'
  <2>1. UNCHANGED <<disk, retired, issued, cmd>>
    BY <1>10 DEF LoginPrompts, LockFails, Load, Doctor, CallFails, SaveFails, Conclude, Crash
  <2>2. pc'[p] \in {"signin", "done", "request", "crashed"}
    BY <1>10 DEF LoginPrompts, LockFails, Load, Doctor, CallFails, SaveFails, Conclude, Crash,
       Goto, Finish, TypeOK
  <2>3. \A q \in Proc : q # p =>
          pc'[q] = pc[q] /\ wire'[q] = wire[q] /\ held'[q] = held[q]
    BY <1>10 DEF LoginPrompts, LockFails, Load, Doctor, CallFails, SaveFails, Conclude, Crash,
       Goto, Finish, TypeOK
  <2>4. SameCargo(p)
    BY <2>2 DEF Carries, OnWire, InMemory, Saving
  <2>5. QED
    BY <1>1, <1>2, <2>1, <2>3, <2>4
<1>11. ASSUME NEW t \in accepted, Revoke(t) PROVE GrantInv' /\ LoginInv'
  BY <1>1, <1>11 DEF Revoke, Carries, OnWire, InMemory, Saving, ChainOf, GenOf
<1>12. CASE Tick \/ UNCHANGED vars
  BY <1>1, <1>12 DEF Tick, vars, Carries, OnWire, InMemory, Saving, ChainOf, GenOf
<1>13. QED
  BY <1>3, <1>4, <1>5, <1>6, <1>7, <1>8, <1>9, <1>10, <1>11, <1>12 DEF Next, Progress

-----------------------------------------------------------------------------
LEMMA FileInit == Init => FileInv
<1> SUFFICES ASSUME Init PROVE FileInv
  OBVIOUS
<1> USE DEF Init
<1>1. TypeOK
  <2>1. disk \in Record \cup {NoFile, BadFile}
    BY TimingAssumption DEF FoundRecord, SubjectOr, Record, Subject
  <2>2. pc \in [Proc -> Points] /\ cmd \in [Proc -> Commands]
    BY MixAssumption DEF FirstPoint, Points
  <2>3. QED
    BY <2>1, <2>2 DEF TypeOK, Results
<1>2. \A p \in Proc : pc[p] = FirstPoint(cmd[p]) /\ wire[p] = NoRecord /\ result[p] = "none"
  OBVIOUS
<1>3. PlaceInv
  BY <1>2 DEF PlaceInv, FirstPoint, Saving, InMemory
<1>4. \A p \in Proc : ~Critical(p) /\ ~Carries(p) /\ ~Refreshing(p)
  BY <1>2 DEF FirstPoint, Critical, Carries, OnWire, InMemory, Saving, Refreshing
<1>5. LockInv /\ RefreshInv /\ SavedInv /\ GrantInv /\ LoginInv
  BY <1>4 DEF LockInv, RefreshInv, SavedInv, GrantInv, LoginInv, Critical
<1>6. BoundInv /\ RetiredNeverReturns
  BY Sentinels DEF BoundInv, RetiredNeverReturns, FoundRecord
<1>7. QED
  BY <1>1, <1>3, <1>5, <1>6 DEF FileInv

LEMMA FileStep == FileInv /\ [Next]_vars => FileInv'
BY TypeStep, PlaceStep, LockStep, BoundStep, RefreshStep, SavedStep, GrantStep, RetiredStep DEF FileInv

(* The structural invariant holds, for any number of processes, any mix of *)
(* commands, any lifetimes and any number of grants.                       *)
THEOREM FileInvariant == Spec => []FileInv
BY FileInit, FileStep, PTL DEF Spec

(* Every variable stays in its domain. *)
THEOREM TypeCorrect == Spec => []TypeOK
BY FileInvariant, PTL DEF FileInv

(* A refresh's record is still the file's when its answer arrives: nobody  *)
(* else saves or removes while acquireSession or refreshCredentials waits  *)
(* for the network under the flock.                                        *)
THEOREM RefreshUndisturbed == Spec => []RefreshSeesCurrentFile
<1>1. FileInv => RefreshSeesCurrentFile
  BY DEF FileInv, RefreshInv, RefreshSeesCurrentFile
<1>2. QED
  BY <1>1, FileInvariant, PTL

(* Credentials that a logout or a login removed from the file never come   *)
(* back, whatever the other invocations were doing.                        *)
THEOREM LogoutSticks == Spec => []RetiredNeverReturns
BY FileInvariant, PTL DEF FileInv

(* Only a save and a logout change the file, and they hold the flock.      *)
LEMMA FileChange ==
  ASSUME FileInv, [Next]_vars, disk' # disk
  PROVE  \E p \in Proc :
           /\ lock = p
           /\ \/ /\ ReplaceFile(p)
                 /\ disk' = held[p] /\ held[p] \in Record /\ held[p].refresh
                 /\ Carries(p) /\ ChainOf(p) = held[p].chain /\ GenOf(p) = held[p].gen
                 /\ cmd[p] \in {"login", "status", "session"}
              \/ /\ Remove(p)
                 /\ disk' = NoFile
                 /\ cmd[p] = "logout"
<1>1. PICK p \in Proc : ReplaceFile(p) \/ Remove(p)
  BY DEF Next, Progress, LoginPrompts, LockFails, AcquireLock, Load, Doctor, SignIn,
     RemoteRefresh, CallFails, Receive, CreateTemp, WriteTemp, SaveFails, Conclude,
     Crash, Revoke, Tick, vars
<1>2. CASE ReplaceFile(p)
  BY <1>2 DEF ReplaceFile, FileInv, PlaceInv, LockInv, InMemory, Saving, Carries, Critical,
     ChainOf, GenOf
<1>3. CASE Remove(p)
  BY <1>3 DEF Remove, FileInv, PlaceInv, LockInv, Critical
<1>4. QED
  BY <1>1, <1>2, <1>3

(* Within one chain the file only moves to a later grant: no save undoes a *)
(* newer one.                                                              *)
THEOREM FileForward == Spec => FileMovesForward
<1>1. ASSUME FileInv, [Next]_vars,
             disk \in Record, disk' \in Record, disk' # disk, disk'.chain = disk.chain
      PROVE  disk'.gen > disk.gen
  <2>1. PICK p \in Proc : /\ disk' = held[p] /\ Carries(p)
                          /\ ChainOf(p) = held[p].chain /\ GenOf(p) = held[p].gen
    BY <1>1, FileChange, Sentinels
  <2>2. cmd[p] # "login"
    BY <1>1, <2>1 DEF FileInv, GrantInv, ChainsOf
  <2>3. QED
    BY <2>1, <2>2 , <1>1 DEF FileInv, GrantInv
<1>2. FileInv /\ [Next]_vars =>
        ((disk \in Record /\ disk' \in Record /\ disk' # disk /\ disk'.chain = disk.chain)
           => (disk'.gen > disk.gen))
  BY <1>1
<1>3. QED
  BY <1>2, FileInvariant, PTL DEF Spec, FileMovesForward

(* Only the holder of the flock changes the file; a dry run or a doctor    *)
(* never does, and no save leaves a torn file.                             *)
THEOREM WritersOnly == Spec => OnlyWritersWrite
<1>1. FileInv /\ [Next]_vars =>
        (disk' # disk => /\ disk' # BadFile
                         /\ \E p \in Proc :
                              /\ lock = p
                              /\ cmd[p] \in {"login", "status", "session", "logout"})
  BY FileChange, Sentinels
<1>2. QED
  BY <1>1, FileInvariant, PTL DEF Spec, OnlyWritersWrite
=============================================================================
