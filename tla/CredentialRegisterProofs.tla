----------------------- MODULE CredentialRegisterProofs -----------------------
(***************************************************************************)
(* What the processes that share the credentials are promised, proved for  *)
(* any number of processes and grants from the structural invariant of     *)
(* CredentialStoreProofs: a stored success stays stored, a rejected token  *)
(* was lost, a healthy record is alive, the chain keeps its user, and the  *)
(* store as a whole implements the atomic register.                        *)
(***************************************************************************)
EXTENDS CredentialStoreProofs

Steps(p) == LoginPrompts(p) \/ LockFails(p) \/ Progress(p) \/ Crash(p)

(* A process that ended well still has the record it reported. *)
HeldInv ==
  \A p \in Proc :
    /\ cmd[p] \in {"login", "status", "session"}
    /\ result[p] \in {"healthy", "session"}
    => held[p] \in Record /\ pc[p] = "done"

(* Stored expiry exceeds the token's own by the latency at most. *)
InTime(r) == r.expires <= r.exp + Timeout
FileInTime == disk \in Record => /\ InTime(disk)
                                 /\ disk.refresh \/ disk.expires = disk.exp
MemoryInTime == \A p \in Proc : InMemory(p) => InTime(held[p])
WireInTime == \A p \in Proc : OnWire(p) => now + wire[p].life <= wire[p].exp + Timeout
LatencyInv == FileInTime /\ MemoryInTime /\ WireInTime

(* The file's refresh token is accepted, or its successor is still on its  *)
(* way to the file, or the chain is lost; the same of a carried grant.     *)
StaleIsCarried ==
  Stale(disk) => \/ disk.chain \in lost
                 \/ \E p \in Proc : Carries(p) /\ cmd[p] # "login"
CargoIsAccepted ==
  \A p \in Proc : Carries(p) =>
    <<ChainOf(p), GenOf(p)>> \in accepted \/ ChainOf(p) \in lost
DeniedIsLost ==
  \A p \in Proc : Refreshing(p) => /\ disk.refresh
                                   /\ wire[p] = Denied => disk.chain \in lost
AcceptedInv == StaleIsCarried /\ CargoIsAccepted /\ DeniedIsLost

(* The stored user is known whenever the token itself names one. *)
Owned(r) == r.sub # NoUser => r.user # NoUser

KeepsUser(p) == cmd[p] # "login" /\ disk.user # NoUser => held[p].user # NoUser
UserInv ==
  /\ disk \in Record => Owned(disk)
  /\ \A p \in Proc : InMemory(p) => Owned(held[p]) /\ KeepsUser(p)

-----------------------------------------------------------------------------
(* Every step is a step of one process, of the token service or of time.   *)
LEMMA WhoSteps ==
  ASSUME [Next]_vars
  PROVE  \/ \E p \in Proc : Steps(p)
         \/ \E t \in accepted : Revoke(t)
         \/ Tick
         \/ UNCHANGED vars
BY DEF Next, Steps

(* A step of one process leaves the memory of the others alone. *)
LEMMA OthersKeep ==
  ASSUME TypeOK, NEW p \in Proc, Steps(p), NEW q \in Proc, q # p
  PROVE  /\ pc'[q] = pc[q] /\ wire'[q] = wire[q]
         /\ held'[q] = held[q] /\ result'[q] = result[q]
BY DEF TypeOK, Steps, Progress, LoginPrompts, LockFails, SignIn, AcquireLock, Load, Doctor,
   RemoteRefresh, CallFails, Receive, CreateTemp, WriteTemp, ReplaceFile, SaveFails, Remove, Conclude,
   Crash, Goto, Finish

(* A command never changes its mind, and history only grows. *)
LEMMA HistoryGrows ==
  ASSUME [Next]_vars
  PROVE  cmd' = cmd /\ lost \subseteq lost' /\ retired \subseteq retired'
BY DEF vars, Next, Progress, LoginPrompts, LockFails, SignIn, AcquireLock, Load, Doctor,
   RemoteRefresh, CallFails, Receive, CreateTemp, WriteTemp, ReplaceFile, SaveFails, Remove, Conclude,
   Crash, Revoke, Tick, Abandon, Finish

(* A process reports in a step of its own. *)
LEMMA ReportIsOwnStep ==
  ASSUME TypeOK, [Next]_vars, NEW q \in Proc, result'[q] # result[q]
  PROVE  Steps(q)
<1>1. CASE \E p \in Proc : Steps(p)
  BY <1>1, OthersKeep
<1>2. CASE (\E t \in accepted : Revoke(t)) \/ Tick \/ UNCHANGED vars
  BY <1>2 DEF Revoke, Tick, vars
<1>3. QED
  BY <1>1, <1>2, WhoSteps

(* A process that has ended takes no step. *)
LEMMA DoneStays ==
  ASSUME TypeOK, [Next]_vars, NEW q \in Proc, pc[q] = "done"
  PROVE  pc'[q] = "done" /\ held'[q] = held[q] /\ result'[q] = result[q]
<1>1. ASSUME NEW p \in Proc, Steps(p) PROVE p # q
  BY <1>1 DEF Steps, Progress, LoginPrompts, LockFails, SignIn, AcquireLock, Load, Doctor,
     RemoteRefresh, CallFails, Receive, CreateTemp, WriteTemp, ReplaceFile, SaveFails, Saving,
     Remove, Conclude, Crash
<1>2. CASE \E p \in Proc : Steps(p)
  BY <1>1, <1>2, OthersKeep
<1>3. CASE (\E t \in accepted : Revoke(t)) \/ Tick \/ UNCHANGED vars
  BY <1>3 DEF Revoke, Tick, vars
<1>4. QED
  BY <1>2, <1>3, WhoSteps

-----------------------------------------------------------------------------
(* login, status and a protected command report a success only in the step *)
(* that reads the record from the file or puts it there.                   *)
LEMMA SuccessIsStored ==
  ASSUME FileInv, [Next]_vars, NEW q \in Proc, cmd[q] \in {"login", "status", "session"},
         result'[q] \in {"healthy", "session"}, result'[q] # result[q]
  PROVE  pc'[q] = "done" /\ held'[q] \in Record /\ disk' = held'[q]
<1> USE DEF TypeOK, FileInv, PlaceInv
<1>1. Steps(q)
  BY ReportIsOwnStep
<1>2. CASE Load(q)
  BY <1>2 DEF Load, Finish, Goto
<1>3. CASE Conclude(q)
  BY <1>3 DEF Conclude, Finish, Goto, SavedInv
<1>4. CASE Receive(q)
  BY <1>4 DEF Receive, Finish, Goto, AfterAnswer
<1>5. CASE Doctor(q) \/ Remove(q) \/ SignIn(q) \/ RemoteRefresh(q)
  BY <1>5 DEF Doctor, Remove, SignIn, RemoteRefresh, Finish
<1>6. CASE \/ LoginPrompts(q) \/ LockFails(q) \/ AcquireLock(q) \/ CallFails(q)
           \/ CreateTemp(q) \/ WriteTemp(q) \/ ReplaceFile(q) \/ SaveFails(q) \/ Crash(q)
  BY <1>6 DEF LoginPrompts, LockFails, AcquireLock, CallFails, CreateTemp, WriteTemp,
     ReplaceFile, SaveFails, Crash, Finish
<1>7. QED
  BY <1>1, <1>2, <1>3, <1>4, <1>5, <1>6 DEF Steps, Progress

LEMMA HeldStep ==
  ASSUME FileInv, HeldInv, [Next]_vars
  PROVE  HeldInv'
<1> SUFFICES ASSUME NEW q \in Proc, cmd'[q] \in {"login", "status", "session"},
                    result'[q] \in {"healthy", "session"}
             PROVE  held'[q] \in Record /\ pc'[q] = "done"
  BY DEF HeldInv
<1>1. cmd' = cmd
  BY HistoryGrows
<1>2. CASE result'[q] = result[q]
  BY <1>1, <1>2, DoneStays DEF HeldInv, FileInv
<1>3. CASE result'[q] # result[q]
  BY <1>1, <1>3, SuccessIsStored
<1>4. QED
  BY <1>2, <1>3

(* What the file holds is replaced by a later grant of its chain, or its   *)
(* chain is retired in that very step.                                     *)
LEMMA FileSuccession ==
  ASSUME FileInv, [Next]_vars, disk \in Record
  PROVE  \/ disk' = disk
         \/ disk.chain \in retired'
         \/ disk' \in Record /\ disk'.chain = disk.chain /\ disk'.gen > disk.gen
<1> SUFFICES ASSUME disk' # disk
             PROVE  \/ disk.chain \in retired'
                    \/ disk' \in Record /\ disk'.chain = disk.chain /\ disk'.gen > disk.gen
  OBVIOUS
<1>1. ASSUME NEW p \in Proc, ReplaceFile(p), disk' = held[p], held[p] \in Record,
             Carries(p), ChainOf(p) = held[p].chain, GenOf(p) = held[p].gen
      PROVE  \/ disk.chain \in retired'
             \/ disk' \in Record /\ disk'.chain = disk.chain /\ disk'.gen > disk.gen
  <2>1. CASE disk'.chain = disk.chain
    BY <1>1, <2>1 DEF FileInv, GrantInv, ChainsOf
  <2>2. CASE disk'.chain # disk.chain
    BY <1>1, <2>2 DEF ReplaceFile, ChainsOf
  <2>3. QED
    BY <2>1, <2>2
<1>2. ASSUME NEW p \in Proc, Remove(p), disk' = NoFile
      PROVE  disk.chain \in retired'
  BY <1>2 DEF Remove, ChainsOf
<1>3. QED
  BY <1>1, <1>2, FileChange

LEMMA ReportedStep ==
  ASSUME FileInv, HeldInv, ReportedIsStored, [Next]_vars
  PROVE  ReportedIsStored'
<1> SUFFICES ASSUME NEW q \in Proc, cmd'[q] \in {"login", "status", "session"},
                    result'[q] \in {"healthy", "session"}
             PROVE  \/ disk' = held'[q]
                    \/ held'[q].chain \in retired'
                    \/ /\ disk' \in Record /\ disk'.chain = held'[q].chain
                       /\ disk'.gen > held'[q].gen
  BY DEF ReportedIsStored
<1>1. cmd' = cmd /\ retired \subseteq retired'
  BY HistoryGrows
<1>2. CASE result'[q] # result[q]
  BY <1>1, <1>2, SuccessIsStored
<1>3. CASE result'[q] = result[q]
  <2>1. held[q] \in Record /\ held'[q] = held[q]
    BY <1>1, <1>3, DoneStays DEF HeldInv, FileInv
  <2>2. CASE disk = held[q]
    BY <2>1, <2>2, FileSuccession
  <2>3. CASE held[q].chain \in retired
    BY <1>1, <2>1, <2>3
  <2>4. CASE disk \in Record /\ disk.chain = held[q].chain /\ disk.gen > held[q].gen
    <3>1. CASE disk' \in Record /\ disk'.chain = disk.chain /\ disk'.gen > disk.gen
      <4>1. disk.gen \in Nat /\ disk'.gen \in Nat /\ held[q].gen \in Nat
        BY <2>1, <2>4, <3>1 DEF Record
      <4>2. disk'.gen > held[q].gen
        BY <2>4, <3>1, <4>1
      <4>3. QED
        BY <2>1, <2>4, <3>1, <4>2
    <3>2. QED
      BY <2>1, <2>4, <3>1, FileSuccession
  <2>5. QED
    BY <1>1, <1>3, <2>2, <2>3, <2>4 DEF ReportedIsStored
<1>4. QED
  BY <1>2, <1>3

LEMMA NothingReported == Init => HeldInv /\ ReportedIsStored
BY DEF Init, HeldInv, ReportedIsStored

(* A success is durable: what login, status or a protected command         *)
(* reported stays in the file until a later refresh of the chain, a login  *)
(* or a logout replaces it, whatever the other invocations do.             *)
THEOREM SuccessIsDurable == Spec => []ReportedIsStored
<1>1. FileInv /\ HeldInv /\ ReportedIsStored /\ [Next]_vars
        => HeldInv' /\ ReportedIsStored'
  BY HeldStep, ReportedStep
<1>2. QED
  BY <1>1, NothingReported, FileInvariant, PTL DEF Spec
-----------------------------------------------------------------------------
(* The answer that came over the wire is measured from its receipt, the    *)
(* token from its issue: the two differ by the latency.                    *)
LEMMA LatencyInit == Init => LatencyInv
<1> SUFFICES ASSUME Init PROVE LatencyInv
  OBVIOUS
<1>1. \A p \in Proc : \/ pc[p] \in {"prompt", "doctor"}
                      \/ pc[p] = "lock" /\ cmd[p] # "login"
  BY DEF Init, FirstPoint
<1>2. \A p \in Proc : ~InMemory(p) /\ ~OnWire(p)
  BY <1>1 DEF InMemory, OnWire, Saving
<1>3. disk \in Record => disk.expires = disk.exp /\ disk.exp \in Nat
  BY Sentinels DEF Init, FoundRecord, Record
<1>4. QED
  BY <1>2, <1>3, TimingAssumption DEF LatencyInv, FileInTime, MemoryInTime, WireInTime, InTime

(* A process that keeps its place keeps what it carries. *)
LEMMA StillCarries ==
  ASSUME NEW q \in Proc, pc'[q] = pc[q], wire'[q] = wire[q], held'[q] = held[q], cmd' = cmd
  PROVE  /\ InMemory(q)' = InMemory(q) /\ OnWire(q)' = OnWire(q) /\ Carries(q)' = Carries(q)
         /\ ChainOf(q)' = ChainOf(q) /\ GenOf(q)' = GenOf(q) /\ Refreshing(q)' = Refreshing(q)
BY DEF InMemory, OnWire, Carries, Saving, ChainOf, GenOf, Refreshing

(* The file's new record, if it has one, was in the memory of its writer.  *)
LEMMA NewFileFromMemory ==
  ASSUME FileInv, [Next]_vars, disk' \in Record, disk' # disk
  PROVE  \E p \in Proc : /\ InMemory(p) /\ disk' = held[p] /\ disk'.refresh
                         /\ lock = p /\ ReplaceFile(p)
<1>1. PICK p \in Proc : /\ lock = p /\ ReplaceFile(p) /\ disk' = held[p] /\ held[p].refresh
  BY FileChange, Sentinels
<1>2. InMemory(p)
  BY <1>1 DEF ReplaceFile, InMemory, Saving
<1>3. QED
  BY <1>1, <1>2

(* The memory of a save or of a waiting login was filled when its answer   *)
(* arrived, and by nothing since.                                          *)
LEMMA MemoryFromAnswer ==
  ASSUME FileInv, [Next]_vars, NEW q \in Proc, InMemory(q)', ~Receive(q)
  PROVE  InMemory(q) /\ held'[q] = held[q]
<1>0. cmd' = cmd
  BY HistoryGrows
<1>1. CASE Steps(q)
  BY <1>1 DEF FileInv, TypeOK, PlaceInv, InMemory, Saving, Steps, Progress, LoginPrompts,
     LockFails, SignIn, AcquireLock, UnderLock, Load, Doctor, RemoteRefresh, CallFails,
     CreateTemp, WriteTemp, ReplaceFile, SaveFails, Remove, Conclude, Crash, Goto, Finish
<1>2. CASE \E p \in Proc : p # q /\ Steps(p)
  BY <1>0, <1>2, OthersKeep, StillCarries DEF FileInv
<1>3. CASE (\E t \in accepted : Revoke(t)) \/ Tick \/ UNCHANGED vars
  BY <1>3, StillCarries DEF Revoke, Tick, vars
<1>4. QED
  BY <1>1, <1>2, <1>3, WhoSteps

LEMMA LatencyStep ==
  ASSUME FileInv, LatencyInv, [Next]_vars
  PROVE  LatencyInv'
<1>0. FileInv' /\ cmd' = cmd
  BY FileStep, HistoryGrows
<1>1. FileInTime'
  <2>1. CASE disk' = disk
    BY <2>1 DEF LatencyInv, FileInTime, InTime
  <2>2. CASE disk' # disk
    <3> SUFFICES ASSUME disk' \in Record
                 PROVE  InTime(disk)' /\ disk'.refresh
      BY DEF FileInTime
    <3>1. PICK p \in Proc : InMemory(p) /\ disk' = held[p] /\ disk'.refresh
      BY <2>2, NewFileFromMemory
    <3>2. InTime(held[p])
      BY <3>1 DEF LatencyInv, MemoryInTime
    <3>3. QED
      BY <3>1, <3>2 DEF InTime
  <2>3. QED
    BY <2>1, <2>2
<1>2. MemoryInTime'
  <2> SUFFICES ASSUME NEW q \in Proc, InMemory(q)'
               PROVE  InTime(held[q])'
    BY DEF MemoryInTime
  <2>1. CASE Receive(q)
    <3>1. /\ OnWire(q) /\ wire[q] \in Reply
          /\ held'[q] = RecordOf(wire[q], RefreshedUser(cmd[q], held[q], wire[q].sub))
      BY <2>1 DEF Receive, InMemory, OnWire, Saving, Goto, Finish, FileInv, TypeOK, PlaceInv
    <3>2. held'[q].expires = now + wire[q].life /\ held'[q].exp = wire[q].exp
      BY <3>1 DEF RecordOf
    <3>3. QED
      BY <3>1, <3>2 DEF LatencyInv, WireInTime, InTime
  <2>2. CASE ~Receive(q)
    <3>1. InMemory(q) /\ held'[q] = held[q]
      BY <2>2, MemoryFromAnswer
    <3>2. QED
      BY <3>1 DEF LatencyInv, MemoryInTime, InTime
  <2>3. QED
    BY <2>1, <2>2
<1>3. WireInTime'
  <2> SUFFICES ASSUME NEW q \in Proc, OnWire(q)'
               PROVE  now' + wire'[q].life <= wire'[q].exp + Timeout
    BY DEF WireInTime
  <2>1. CASE Tick
    <3>1. OnWire(q) /\ wire'[q] = wire[q] /\ now' = now + 1
      BY <2>1 DEF Tick, OnWire
    <3>2. wire[q] \in Reply
      BY <3>1 DEF OnWire, FileInv, PlaceInv
    <3>3. now < (wire[q].exp - wire[q].life) + Timeout
      BY <2>1, <3>2 DEF Tick
    <3>4. now \in Nat /\ wire[q].exp \in Nat /\ wire[q].life \in Nat /\ Timeout \in Nat
      BY <3>2, TimingAssumption DEF Reply, FileInv, TypeOK
    <3>5. QED
      BY <3>1, <3>3, <3>4
  <2>2. CASE SignIn(q) \/ RemoteRefresh(q)
    <3>1. wire'[q] # Denied
      BY DEF OnWire
    <3>2. now' = now /\ \E life \in Lifetimes : wire'[q].life = life /\ wire'[q].exp = now + life
      BY <2>2, <3>1 DEF SignIn, RemoteRefresh, FileInv, TypeOK, remote
    <3>3. QED
      BY <3>2, TimingAssumption DEF FileInv, TypeOK
  <2>3. CASE Steps(q) /\ ~SignIn(q) /\ ~RemoteRefresh(q)
    <3>1. pc'[q] # "reply"
      BY <2>3 DEF FileInv, TypeOK, Steps, Progress, LoginPrompts, LockFails, AcquireLock,
         UnderLock, Load, Doctor, CallFails, Receive, AfterAnswer, CreateTemp, WriteTemp,
         ReplaceFile, SaveFails, Remove, Conclude, Crash, Goto, Finish
    <3>2. QED
      BY <3>1 DEF OnWire
  <2>4. CASE \E p \in Proc : p # q /\ Steps(p)
    <3>1. OnWire(q) /\ wire'[q] = wire[q]
      BY <1>0, <2>4, OthersKeep, StillCarries DEF FileInv
    <3>2. now' = now
      BY <2>4 DEF Steps, Progress, LoginPrompts, LockFails, SignIn, AcquireLock, Load, Doctor,
         RemoteRefresh, CallFails, Receive, CreateTemp, WriteTemp, ReplaceFile, SaveFails,
         Remove, Conclude, Crash
    <3>3. QED
      BY <3>1, <3>2 DEF LatencyInv, WireInTime
  <2>5. CASE (\E t \in accepted : Revoke(t)) \/ UNCHANGED vars
    BY <2>5 DEF Revoke, vars, LatencyInv, WireInTime, OnWire
  <2>6. QED
    BY <2>1, <2>2, <2>3, <2>4, <2>5, WhoSteps
<1>4. QED
  BY <1>1, <1>2, <1>3 DEF LatencyInv

THEOREM LatencyBounded == Spec => []LatencyInv
<1>1. FileInv /\ LatencyInv /\ [Next]_vars => LatencyInv'
  BY LatencyStep
<1>2. QED
  BY <1>1, LatencyInit, FileInvariant, PTL DEF Spec

(* A record the program calls healthy carries a token that is alive at the *)
(* remote: the latency that the stored expiry does not count stays inside  *)
(* the refresh window, whatever window at least as long as the client's    *)
(* timeout is chosen.                                                      *)
THEOREM HealthyMeansAlive == Spec => []HealthyIsAlive
<1>1. FileInv /\ LatencyInv => HealthyIsAlive
  <2> SUFFICES ASSUME FileInv, LatencyInv, disk \in Record, Healthy(disk)
               PROVE  disk.exp > now
    BY DEF HealthyIsAlive
  <2>1. disk.exp \in Nat /\ disk.expires \in Nat /\ now \in Nat
    BY DEF Record, FileInv, TypeOK
  <2>2. QED
    BY <2>1, TimingAssumption DEF LatencyInv, FileInTime, InTime, Healthy
<1>2. QED
  BY <1>1, FileInvariant, LatencyBounded, PTL

(* Every session handed to a command is alive in that instant, whether it  *)
(* was read from the file, came with the slowest answer, or was stored     *)
(* first; the one exception is a save that outlasted the record's health,  *)
(* after which the code does not look at the clock again.                  *)
THEOREM SessionsAreAlive == Spec => SessionIsAlive
<1>1. ASSUME FileInv, LatencyInv, [Next]_vars, NEW q \in Proc,
             result[q] = "none", result'[q] = "session"
      PROVE  held'[q].exp > now \/ SavedTooLate(q)
  <2>1. Load(q) \/ Receive(q) \/ Conclude(q)
    <3>1. Steps(q)
      BY <1>1, ReportIsOwnStep DEF FileInv
    <3>2. QED
      BY <1>1, <3>1 DEF Steps, Progress, LoginPrompts, LockFails, SignIn, AcquireLock, Doctor,
         StateOf, RemoteRefresh, CallFails, CreateTemp, WriteTemp, ReplaceFile, SaveFails, Remove,
         Crash, Finish, FileInv, TypeOK
  <2>2. ASSUME disk \in Record, Healthy(disk) PROVE disk.exp > now
    <3>1. disk.exp \in Nat /\ disk.expires \in Nat /\ now \in Nat
      BY <1>1, <2>2 DEF Record, FileInv, TypeOK
    <3>2. QED
      BY <1>1, <2>2, <3>1, TimingAssumption DEF LatencyInv, FileInTime, InTime, Healthy
  <2>3. CASE Load(q)
    <3>1. /\ disk \in Record /\ held'[q] = disk /\ StateOf(disk) # "expired"
          /\ Healthy(disk) \/ ~disk.refresh
      BY <1>1, <2>3 DEF Load, Finish, FileInv, TypeOK
    <3>2. CASE Healthy(disk)
      BY <2>2, <3>1, <3>2
    <3>3. CASE ~Healthy(disk)
      BY <1>1, <3>1, <3>3 DEF LatencyInv, FileInTime, StateOf, Expiring
    <3>4. QED
      BY <3>2, <3>3
  <2>4. CASE Receive(q)
    <3>1. /\ pc[q] = "reply" /\ wire[q] # Denied /\ UsableLifetime(wire[q].life)
          /\ held'[q] = RecordOf(wire[q], RefreshedUser(cmd[q], held[q], wire[q].sub))
      BY <1>1, <2>4 DEF Receive, Finish, FileInv, TypeOK
    <3>2. OnWire(q) /\ wire[q] \in Reply /\ held'[q].exp = wire[q].exp
      BY <1>1, <3>1 DEF OnWire, RecordOf, FileInv, PlaceInv
    <3>3. wire[q].exp \in Nat /\ wire[q].life \in Nat /\ now \in Nat
      BY <1>1, <3>2 DEF Reply, FileInv, TypeOK
    <3>4. QED
      BY <1>1, <3>1, <3>2, <3>3, TimingAssumption DEF LatencyInv, WireInTime, UsableLifetime
  <2>5. CASE Conclude(q)
    <3>1. pc[q] = "saved" /\ held'[q] = held[q]
      BY <1>1, <2>5 DEF Conclude, Finish, FileInv, TypeOK
    <3>2. disk \in Record /\ held'[q] = disk
      BY <1>1, <3>1 DEF FileInv, SavedInv
    <3>3. QED
      BY <2>2, <3>1, <3>2 DEF SavedTooLate
  <2>6. QED
    BY <2>1, <2>3, <2>4, <2>5
<1>2. FileInv /\ LatencyInv /\ [Next]_vars =>
        \A p \in Proc :
          result[p] = "none" /\ result'[p] = "session"
            => held'[p].exp > now \/ SavedTooLate(p)
  BY <1>1
<1>3. QED
  BY <1>2, FileInvariant, LatencyBounded, PTL DEF Spec, SessionIsAlive

-----------------------------------------------------------------------------
LEMMA AcceptedInit == Init => AcceptedInv
<1> SUFFICES ASSUME Init PROVE AcceptedInv
  OBVIOUS
<1>1. \A p \in Proc : \/ pc[p] \in {"prompt", "doctor"}
                      \/ pc[p] = "lock" /\ cmd[p] # "login"
  BY DEF Init, FirstPoint
<1>2. \A p \in Proc : ~Carries(p) /\ ~Refreshing(p)
  BY <1>1 DEF Carries, InMemory, OnWire, Saving, Refreshing
<1>3. ~Stale(disk)
  BY Sentinels DEF Init, FoundRecord, Stale
<1>4. QED
  BY <1>2, <1>3 DEF AcceptedInv, StaleIsCarried, CargoIsAccepted, DeniedIsLost

(* Two processes that rely on the flock are one. *)
LEMMA OneHolder ==
  ASSUME FileInv, NEW p \in Proc, NEW q \in Proc, Critical(p), Critical(q)
  PROVE  p = q
BY DEF FileInv, LockInv

(* A refresh is denied only when its chain is lost: while it holds the     *)
(* flock nobody else can be carrying the successor of its token.           *)
LEMMA DeniedStep ==
  ASSUME FileInv, AcceptedInv, [Next]_vars
  PROVE  DeniedIsLost'
<1> SUFFICES ASSUME NEW q \in Proc, Refreshing(q)'
             PROVE  disk'.refresh /\ (wire'[q] = Denied => disk'.chain \in lost')
  BY DEF DeniedIsLost
<1>0. FileInv' /\ cmd' = cmd /\ lost \subseteq lost'
  BY FileStep, HistoryGrows
<1>1. CASE Load(q)
  <2>1. disk' = disk /\ disk.refresh /\ wire'[q] = wire[q] /\ pc[q] = "load"
    BY <1>1 DEF Load, Refreshing, Goto, Finish, FileInv, TypeOK
  <2>2. wire[q] = NoRecord
    BY <2>1 DEF FileInv, PlaceInv
  <2>3. QED
    BY <2>1, <2>2, Sentinels
<1>2. CASE RemoteRefresh(q)
  <2>1. /\ Refreshing(q) /\ Critical(q) /\ disk' = disk /\ disk \in Record /\ held[q] = disk
        /\ pc[q] = "request"
    BY <1>2 DEF RemoteRefresh, Refreshing, Critical, FileInv, PlaceInv, RefreshInv
  <2>2. disk.refresh
    BY <2>1 DEF AcceptedInv, DeniedIsLost
  <2>3. ASSUME wire'[q] = Denied PROVE disk.chain \in lost
    <3>1. <<held[q].chain, held[q].gen>> \notin accepted
      <4>1. held[q].chain \in Nat
        BY <2>1 DEF Record
      <4>2. \A life \in Lifetimes, sub \in Subject :
              Denied # [chain |-> held[q].chain, gen |-> issued + 1, sub |-> sub,
                        life |-> life, exp |-> now + life]
        BY <4>1, Sentinels, TimingAssumption DEF FileInv, TypeOK, Reply
      <4>3. QED
        BY <1>2, <2>3, <4>2 DEF RemoteRefresh, FileInv, TypeOK
    <3>2. Stale(disk)
      BY <2>1, <2>2, <3>1 DEF Stale
    <3>3. ~Carries(q)
      BY <2>1 DEF Carries, OnWire, InMemory, Saving
    <3>4. \A p \in Proc : ~(Carries(p) /\ cmd[p] # "login")
      BY <2>1, <3>3, CarriesCritical, OneHolder
    <3>5. QED
      BY <3>2, <3>4 DEF AcceptedInv, StaleIsCarried
  <2>4. QED
    BY <1>0, <2>1, <2>2, <2>3
<1>3. CASE Steps(q) /\ ~Load(q) /\ ~RemoteRefresh(q)
  BY <1>3 DEF FileInv, TypeOK, PlaceInv, Refreshing, Steps, Progress, LoginPrompts, LockFails,
     SignIn, AcquireLock, UnderLock, Doctor, CallFails, Receive, AfterAnswer, CreateTemp,
     WriteTemp, ReplaceFile, SaveFails, Remove, Conclude, Crash, Goto, Finish
<1>4. ASSUME pc'[q] = pc[q], wire'[q] = wire[q], held'[q] = held[q]
      PROVE  disk'.refresh /\ (wire'[q] = Denied => disk'.chain \in lost')
  <2>1. Refreshing(q)
    BY <1>0, <1>4, StillCarries
  <2>2. disk' = disk
    BY <1>0, <1>4, <2>1 DEF FileInv, RefreshInv
  <2>3. QED
    BY <1>0, <1>4, <2>1, <2>2 DEF AcceptedInv, DeniedIsLost
<1>5. CASE \E p \in Proc : p # q /\ Steps(p)
  BY <1>4, <1>5, OthersKeep DEF FileInv
<1>6. CASE (\E t \in accepted : Revoke(t)) \/ Tick \/ UNCHANGED vars
  BY <1>4, <1>6 DEF Revoke, Tick, vars
<1>7. QED
  BY <1>1, <1>2, <1>3, <1>5, <1>6, WhoSteps

(* What p carries after a step of its own it carried before, unless the    *)
(* token service has just issued it.                                       *)
LEMMA SameCargo ==
  ASSUME TypeOK, NEW p \in Proc, Steps(p), ~SignIn(p), ~RemoteRefresh(p), Carries(p)'
  PROVE  Carries(p) /\ ChainOf(p)' = ChainOf(p) /\ GenOf(p)' = GenOf(p) /\ accepted' = accepted
<1>1. CASE Receive(p)
  <2>1. /\ pc[p] = "reply" /\ wire[p] # Denied /\ pc'[p] \in {"lock", "create"}
        /\ held'[p] = RecordOf(wire[p], RefreshedUser(cmd[p], held[p], wire[p].sub))
    BY <1>1 DEF Receive, Goto, Finish, TypeOK, AfterAnswer, Carries, OnWire, InMemory, Saving
  <2>2. held'[p].chain = wire[p].chain /\ held'[p].gen = wire[p].gen
    BY <2>1 DEF RecordOf
  <2>3. QED
    BY <1>1, <2>1, <2>2 DEF Receive, Carries, OnWire, ChainOf, GenOf
<1>2. CASE AcquireLock(p) \/ CreateTemp(p) \/ WriteTemp(p)
  BY <1>2 DEF AcquireLock, UnderLock, CreateTemp, WriteTemp, Goto, TypeOK, Carries, OnWire,
     InMemory, Saving, ChainOf, GenOf
<1>3. CASE \/ LoginPrompts(p) \/ LockFails(p) \/ Load(p) \/ Doctor(p) \/ CallFails(p)
           \/ ReplaceFile(p) \/ SaveFails(p) \/ Remove(p) \/ Conclude(p) \/ Crash(p)
  <2>1. pc'[p] \in {"signin", "done", "request", "saved", "removed", "crashed"}
    BY <1>3 DEF LoginPrompts, LockFails, Load, Doctor, CallFails, ReplaceFile, SaveFails,
       Remove, Conclude, Crash, Goto, Finish, TypeOK
  <2>2. QED
    BY <2>1 DEF Carries, OnWire, InMemory, Saving
<1>4. QED
  BY <1>1, <1>2, <1>3 DEF Steps, Progress

(* The token service forgets a token only when it revokes it or rotates    *)
(* it for a refresh, and a refresh's old token is never one that another   *)
(* process carries.                                                        *)
LEMMA CargoStep ==
  ASSUME FileInv, AcceptedInv, [Next]_vars
  PROVE  CargoIsAccepted'
<1> SUFFICES ASSUME NEW q \in Proc, Carries(q)'
             PROVE  (<<ChainOf(q), GenOf(q)>> \in accepted)' \/ (ChainOf(q) \in lost)'
  BY DEF CargoIsAccepted
<1>0. cmd' = cmd /\ lost \subseteq lost'
  BY HistoryGrows
<1>1. CASE SignIn(q) \/ RemoteRefresh(q)
  <2>1. pc'[q] = "reply" /\ wire'[q] # Denied
    BY <1>1 DEF SignIn, RemoteRefresh, FileInv, TypeOK, Goto, Carries, OnWire, InMemory, Saving
  <2>2. <<wire'[q].chain, wire'[q].gen>> \in accepted'
    BY <1>1, <2>1 DEF SignIn, RemoteRefresh, FileInv, TypeOK, remote
  <2>3. QED
    BY <2>1, <2>2 DEF ChainOf, GenOf
<1>2. CASE Steps(q) /\ ~SignIn(q) /\ ~RemoteRefresh(q)
  BY <1>0, <1>2, SameCargo DEF FileInv, AcceptedInv, CargoIsAccepted
<1>3. ASSUME NEW p \in Proc, p # q, Steps(p)
      PROVE  (<<ChainOf(q), GenOf(q)>> \in accepted)' \/ (ChainOf(q) \in lost)'
  <2>1. Carries(q) /\ ChainOf(q)' = ChainOf(q) /\ GenOf(q)' = GenOf(q)
    BY <1>0, <1>3, OthersKeep, StillCarries DEF FileInv
  <2>2. <<ChainOf(q), GenOf(q)>> \in accepted \/ ChainOf(q) \in lost
    BY <2>1 DEF AcceptedInv, CargoIsAccepted
  <2>3. CASE RemoteRefresh(p)
    <3>1. disk \in Record /\ held[p] = disk /\ Critical(p)
      BY <2>3 DEF RemoteRefresh, Refreshing, Critical, FileInv, PlaceInv, RefreshInv
    <3>2. cmd[q] = "login"
      BY <1>3, <2>1, <3>1, CarriesCritical, OneHolder
    <3>3. ChainOf(q) # held[p].chain
      BY <2>1, <3>1, <3>2 DEF FileInv, GrantInv, ChainsOf
    <3>4. accepted \ {<<held[p].chain, held[p].gen>>} \subseteq accepted'
      BY <2>3 DEF RemoteRefresh, remote
    <3>5. QED
      BY <1>0, <2>1, <2>2, <3>3, <3>4
  <2>4. CASE ~RemoteRefresh(p)
    <3>1. accepted \subseteq accepted'
      BY <1>3, <2>4 DEF Steps, Progress, LoginPrompts, LockFails, SignIn, AcquireLock, Load,
         Doctor, CallFails, Receive, CreateTemp, WriteTemp, ReplaceFile, SaveFails, Remove, Conclude,
         Crash, remote
    <3>2. QED
      BY <1>0, <2>1, <2>2, <3>1
  <2>5. QED
    BY <2>3, <2>4
<1>4. ASSUME NEW t \in accepted, Revoke(t)
      PROVE  (<<ChainOf(q), GenOf(q)>> \in accepted)' \/ (ChainOf(q) \in lost)'
  <2>1. Carries(q) /\ ChainOf(q)' = ChainOf(q) /\ GenOf(q)' = GenOf(q)
    BY <1>0, <1>4, StillCarries DEF Revoke
  <2>2. accepted' = accepted \ {t} /\ t[1] \in lost'
    BY <1>4 DEF Revoke
  <2>3. CASE t = <<ChainOf(q), GenOf(q)>>
    BY <2>1, <2>2, <2>3
  <2>4. QED
    BY <1>0, <2>1, <2>2, <2>3 DEF AcceptedInv, CargoIsAccepted
<1>5. CASE Tick \/ UNCHANGED vars
  BY <1>0, <1>5, StillCarries DEF Tick, vars, AcceptedInv, CargoIsAccepted
<1>6. QED
  BY <1>1, <1>2, <1>3, <1>4, <1>5, WhoSteps

(* A file whose token is no longer accepted is one whose successor is      *)
(* still carried to it, or one whose chain is lost: giving up with the     *)
(* successor loses the chain.                                              *)
LEMMA StaleStep ==
  ASSUME FileInv, AcceptedInv, [Next]_vars
  PROVE  StaleIsCarried'
<1> SUFFICES ASSUME Stale(disk)'
             PROVE  \/ disk'.chain \in lost'
                    \/ \E p \in Proc : Carries(p)' /\ cmd'[p] # "login"
  BY DEF StaleIsCarried
<1>0. cmd' = cmd /\ lost \subseteq lost'
  BY HistoryGrows
<1>1. CASE disk' # disk
  <2>1. disk' \in Record /\ <<disk'.chain, disk'.gen>> \notin accepted'
    BY DEF Stale
  <2>2. PICK p \in Proc : InMemory(p) /\ disk' = held[p] /\ ReplaceFile(p)
    BY <1>1, <2>1, NewFileFromMemory
  <2>3. Carries(p) /\ ChainOf(p) = held[p].chain /\ GenOf(p) = held[p].gen
    BY <2>2 DEF Carries, ReplaceFile, ChainOf, GenOf
  <2>4. accepted' = accepted
    BY <2>2 DEF ReplaceFile
  <2>5. QED
    BY <1>0, <2>1, <2>2, <2>3, <2>4 DEF AcceptedInv, CargoIsAccepted
<1>2. CASE disk' = disk /\ ~Stale(disk)
  <2>1. /\ disk \in Record /\ <<disk.chain, disk.gen>> \in accepted
        /\ <<disk.chain, disk.gen>> \notin accepted'
    BY <1>2 DEF Stale
  <2>2. ASSUME NEW p \in Proc, Steps(p) PROVE Carries(p)' /\ cmd[p] # "login"
    <3>1. RemoteRefresh(p)
      BY <2>1, <2>2 DEF Steps, Progress, LoginPrompts, LockFails, SignIn, AcquireLock, Load,
         Doctor, CallFails, Receive, CreateTemp, WriteTemp, ReplaceFile, SaveFails, Remove, Conclude,
         Crash, remote
    <3>2. held[p] = disk /\ cmd[p] # "login"
      BY <3>1 DEF RemoteRefresh, Refreshing, FileInv, PlaceInv, RefreshInv
    <3>3. PICK life \in Lifetimes, sub \in Subject :
            wire'[p] = [chain |-> held[p].chain, gen |-> issued + 1, sub |-> sub,
                        life |-> life, exp |-> now + life]
      BY <2>1, <3>1 DEF RemoteRefresh, FileInv, TypeOK, remote
    <3>4. wire'[p] # Denied
      BY <2>1, <3>2, <3>3, Sentinels, TimingAssumption DEF FileInv, TypeOK, Reply, Record
    <3>5. pc'[p] = "reply"
      BY <3>1 DEF RemoteRefresh, Goto, FileInv, TypeOK
    <3>6. QED
      BY <3>2, <3>4, <3>5 DEF Carries, OnWire
  <2>3. ASSUME NEW t \in accepted, Revoke(t) PROVE disk'.chain \in lost'
    BY <1>2, <2>1, <2>3 DEF Revoke
  <2>4. CASE Tick \/ UNCHANGED vars
    BY <2>1, <2>4 DEF Tick, vars
  <2>5. QED
    BY <1>0, <2>2, <2>3, <2>4, WhoSteps
<1>3. CASE disk' = disk /\ Stale(disk)
  <2>1. CASE disk.chain \in lost
    BY <1>0, <1>3, <2>1
  <2>2. ASSUME NEW p \in Proc, Carries(p), cmd[p] # "login"
        PROVE  disk'.chain \in lost' \/ Carries(p)'
    <3>1. CASE \E q \in Proc : q # p /\ Steps(q)
      BY <1>0, <2>2, <3>1, OthersKeep, StillCarries DEF FileInv
    <3>2. CASE (\E t \in accepted : Revoke(t)) \/ Tick \/ UNCHANGED vars
      BY <1>0, <2>2, <3>2, StillCarries DEF Revoke, Tick, vars
    <3>3. ASSUME Abandon(p) PROVE disk'.chain \in lost'
      <4>1. pc[p] = "reply" \/ Saving(p)
        BY <2>2 DEF Carries, OnWire, InMemory
      <4>2. ChainsOf(disk) = {disk.chain}
        BY <1>3 DEF Stale, ChainsOf
      <4>3. QED
        BY <1>3, <2>2, <3>3, <4>1, <4>2 DEF Abandon
    <3>4. CASE ReplaceFile(p)
      <4>1. held[p] = disk /\ pc[p] = "replace"
        BY <1>3, <3>4 DEF ReplaceFile, FileInv, PlaceInv
      <4>2. GenOf(p) > disk.gen /\ GenOf(p) = disk.gen /\ disk.gen \in Nat
        BY <1>3, <2>2, <4>1 DEF FileInv, GrantInv, GenOf, Stale, Record
      <4>3. QED
        BY <4>2
    <3>5. CASE Receive(p)
      BY <2>2, <3>3, <3>5 DEF Receive, Goto, AfterAnswer, FileInv, TypeOK, Carries, InMemory, Saving
    <3>6. CASE CallFails(p) \/ SaveFails(p) \/ Crash(p)
      BY <3>3, <3>6 DEF CallFails, SaveFails, Crash
    <3>7. CASE CreateTemp(p) \/ WriteTemp(p)
      BY <3>7 DEF CreateTemp, WriteTemp, Goto, FileInv, TypeOK, Carries, InMemory, Saving
    <3>8. ~(\/ LoginPrompts(p) \/ LockFails(p) \/ SignIn(p) \/ AcquireLock(p) \/ Load(p)
            \/ Doctor(p) \/ RemoteRefresh(p) \/ Remove(p) \/ Conclude(p))
      BY <2>2 DEF LoginPrompts, LockFails, SignIn, AcquireLock, Load, Doctor, RemoteRefresh,
         Remove, Conclude, Carries, OnWire, InMemory, Saving
    <3>9. QED
      BY <3>1, <3>2, <3>4, <3>5, <3>6, <3>7, <3>8, WhoSteps DEF Steps, Progress
  <2>3. QED
    BY <1>0, <1>3, <2>1, <2>2 DEF AcceptedInv, StaleIsCarried
<1>4. QED
  BY <1>1, <1>2, <1>3

THEOREM AcceptedOrLost == Spec => []AcceptedInv
<1>1. FileInv /\ AcceptedInv /\ [Next]_vars => AcceptedInv'
  BY StaleStep, CargoStep, DeniedStep DEF AcceptedInv
<1>2. QED
  BY <1>1, AcceptedInit, FileInvariant, PTL DEF Spec

(* A process is told INVALID_REFRESH_TOKEN only when the account ended the *)
(* chain or a rotated token was lost on its way to the file: processes     *)
(* never spend one refresh token against each other.                       *)
THEOREM NobodySpendsTwice == Spec => []RejectedOnlyIfLost
<1>1. Init => RejectedOnlyIfLost
  BY DEF Init, RejectedOnlyIfLost
<1>2. ASSUME FileInv, AcceptedInv, RejectedOnlyIfLost, [Next]_vars,
             NEW q \in Proc, result'[q] = "INVALID_REFRESH_TOKEN"
      PROVE  held'[q].chain \in lost'
  <2>0. lost \subseteq lost'
    BY <1>2, HistoryGrows
  <2>1. CASE result[q] = "INVALID_REFRESH_TOKEN"
    <3>1. pc[q] = "done"
      BY <1>2, <2>1 DEF FileInv, PlaceInv
    <3>2. held'[q] = held[q]
      BY <1>2, <3>1, DoneStays DEF FileInv
    <3>3. QED
      BY <1>2, <2>0, <2>1, <3>2 DEF RejectedOnlyIfLost
  <2>2. CASE result[q] # "INVALID_REFRESH_TOKEN"
    <3>1. Steps(q)
      BY <1>2, <2>2, ReportIsOwnStep DEF FileInv
    <3>2. Receive(q)
      BY <1>2, <2>2, <3>1 DEF FileInv, TypeOK, StateOf, Steps, Progress, LoginPrompts, LockFails,
         SignIn, AcquireLock, Load, Doctor, RemoteRefresh, CallFails, CreateTemp, WriteTemp,
         ReplaceFile, SaveFails, Remove, Conclude, Crash, Finish
    <3>3. pc[q] = "reply" /\ wire[q] = Denied /\ cmd[q] # "login" /\ held'[q] = held[q]
      BY <1>2, <2>2, <3>2 DEF Receive, Finish, FileInv, TypeOK
    <3>4. held[q] = disk /\ disk.chain \in lost
      BY <1>2, <3>3 DEF Refreshing, FileInv, RefreshInv, AcceptedInv, DeniedIsLost
    <3>5. QED
      BY <2>0, <3>3, <3>4
  <2>3. QED
    BY <2>1, <2>2
<1>3. FileInv /\ AcceptedInv /\ RejectedOnlyIfLost /\ [Next]_vars => RejectedOnlyIfLost'
  BY <1>2 DEF RejectedOnlyIfLost
<1>4. QED
  BY <1>1, <1>3, FileInvariant, AcceptedOrLost, PTL DEF Spec

-----------------------------------------------------------------------------
LEMMA UserInit == Init => UserInv
<1> SUFFICES ASSUME Init PROVE UserInv
  OBVIOUS
<1>1. \A p \in Proc : \/ pc[p] \in {"prompt", "doctor"}
                      \/ pc[p] = "lock" /\ cmd[p] # "login"
  BY DEF Init, FirstPoint
<1>2. \A p \in Proc : ~InMemory(p)
  BY <1>1 DEF InMemory, Saving
<1>3. disk \in Record => Owned(disk)
  BY Sentinels DEF Init, FoundRecord, Owned, SubjectOr
<1>4. QED
  BY <1>2, <1>3 DEF UserInv

LEMMA UserStep ==
  ASSUME FileInv, UserInv, [Next]_vars
  PROVE  UserInv'
<1>0. FileInv' /\ cmd' = cmd
  BY FileStep, HistoryGrows
<1>1. ASSUME disk' \in Record PROVE Owned(disk)'
  BY <1>1, NewFileFromMemory DEF UserInv, Owned
<1>2. ASSUME NEW q \in Proc, InMemory(q)' PROVE Owned(held[q])' /\ KeepsUser(q)'
  <2>1. CASE Receive(q)
    <3>1. /\ held'[q] = RecordOf(wire[q], RefreshedUser(cmd[q], held[q], wire[q].sub))
          /\ disk' = disk
          /\ pc[q] = "reply"
      BY <1>2, <2>1 DEF Receive, InMemory, Saving, Goto, Finish, FileInv, TypeOK
    <3>2. /\ held'[q].user = RefreshedUser(cmd[q], held[q], wire[q].sub)
          /\ held'[q].sub = wire[q].sub
      BY <3>1 DEF RecordOf
    <3>3. Owned(held[q])'
      BY <3>2 DEF Owned, RefreshedUser, SubjectOr
    <3>4. KeepsUser(q)'
      <4>1. CASE cmd[q] = "login"
        BY <1>0, <4>1 DEF KeepsUser
      <4>2. CASE cmd[q] # "login"
        <5>1. disk = held[q]
          BY <3>1, <4>2 DEF Refreshing, FileInv, RefreshInv
        <5>2. disk.user # NoUser => KnownUser(disk) # NoUser
          BY DEF KnownUser, SubjectOr
        <5>3. disk.user # NoUser => held'[q].user # NoUser
          BY <3>2, <4>2, <5>1, <5>2 DEF RefreshedUser, SubjectOr
        <5>4. QED
          BY <3>1, <5>3 DEF KeepsUser
      <4>3. QED
        BY <4>1, <4>2
    <3>5. QED
      BY <3>3, <3>4
  <2>2. CASE ~Receive(q)
    <3>1. InMemory(q) /\ held'[q] = held[q]
      BY <1>2, <2>2, MemoryFromAnswer
    <3>2. Owned(held[q]) /\ KeepsUser(q)
      BY <3>1 DEF UserInv
    <3>3. Owned(held[q])'
      BY <3>1, <3>2 DEF Owned
    <3>4. KeepsUser(q)'
      <4>1. CASE cmd[q] = "login"
        BY <1>0, <4>1 DEF KeepsUser
      <4>2. CASE cmd[q] # "login" /\ disk' # disk
        <5>1. PICK p \in Proc : /\ lock = p /\ (ReplaceFile(p) \/ Remove(p))
          BY <4>2, FileChange
        <5>2. Critical(q)
          BY <3>1, <4>2, CarriesCritical DEF Carries
        <5>3. p = q
          BY <5>1, <5>2 DEF FileInv, LockInv
        <5>4. pc'[q] \in {"saved", "removed", "done"}
          BY <5>1, <5>3 DEF ReplaceFile, Remove, Goto, Finish, FileInv, TypeOK
        <5>5. QED
          BY <1>2, <5>4 DEF InMemory, Saving
      <4>3. CASE disk' = disk
        BY <1>0, <3>1, <3>2, <4>3 DEF KeepsUser
      <4>4. QED
        BY <4>1, <4>2, <4>3
    <3>5. QED
      BY <3>3, <3>4
  <2>3. QED
    BY <2>1, <2>2
<1>3. \A q \in Proc : InMemory(q)' => Owned(held[q])' /\ KeepsUser(q)'
  BY <1>2
<1>4. QED
  BY <1>1, <1>3 DEF UserInv

(* A refresh never forgets whom the chain belongs to, even when the new    *)
(* access token is opaque.                                                 *)
THEOREM UserSurvivesRefresh == Spec => RefreshKeepsUser
<1>1. FileInv /\ UserInv /\ [Next]_vars => UserInv'
  BY UserStep
<1>2. Spec => []UserInv
  BY <1>1, UserInit, FileInvariant, PTL DEF Spec
<1>3. ASSUME FileInv, UserInv, [Next]_vars, disk \in Record, disk' \in Record,
             disk'.chain = disk.chain, KnownUser(disk) # NoUser
      PROVE  KnownUser(disk') # NoUser
  <2>1. CASE disk' = disk
    BY <1>3, <2>1
  <2>2. CASE disk' # disk
    <3>1. disk.user # NoUser
      BY <1>3 DEF UserInv, Owned, KnownUser, SubjectOr
    <3>2. PICK p \in Proc : InMemory(p) /\ disk' = held[p] /\ ReplaceFile(p)
      BY <1>3, <2>2, NewFileFromMemory
    <3>3. Carries(p) /\ ChainOf(p) = disk.chain
      BY <1>3, <3>2 DEF Carries, ChainOf, ReplaceFile
    <3>4. cmd[p] # "login"
      BY <1>3, <3>3 DEF FileInv, GrantInv, ChainsOf
    <3>5. held[p].user # NoUser
      BY <1>3, <3>1, <3>2, <3>4 DEF UserInv, KeepsUser
    <3>6. QED
      BY <3>2, <3>5 DEF KnownUser, SubjectOr
  <2>3. QED
    BY <2>1, <2>2
<1>4. FileInv /\ UserInv /\ [Next]_vars =>
        ((disk \in Record /\ disk' \in Record /\ disk'.chain = disk.chain
           /\ KnownUser(disk) # NoUser) => (KnownUser(disk') # NoUser))
  BY <1>3
<1>5. QED
  BY <1>2, <1>4, FileInvariant, PTL DEF Spec, RefreshKeepsUser

-----------------------------------------------------------------------------
(* The phases of the register move as the program points do. *)
Phases == [p \in Proc |-> Phase(p)]

LEMMA PhaseStep ==
  ASSUME FileInv, NEW p \in Proc, NEW point, Goto(p, point), NEW ph,
         ph = (IF point = "saved" THEN "stored"
               ELSE IF point = "removed" THEN "cleared"
               ELSE IF point \in {"done", "crashed"} THEN "ended" ELSE "running")
  PROVE  Phases' = [Phases EXCEPT ![p] = ph]
<1>1. pc' = [pc EXCEPT ![p] = point] /\ pc \in [Proc -> Points]
  BY DEF Goto, FileInv, TypeOK
<1>2. Phase(p)' = ph
  BY <1>1 DEF Phase
<1>3. ASSUME NEW q \in Proc, q # p PROVE Phase(q)' = Phase(q)
  BY <1>1, <1>3 DEF Phase
<1>4. QED
  BY <1>2, <1>3 DEF Phases

LEMMA PhaseStays ==
  ASSUME FileInv, NEW p \in Proc, NEW point, Goto(p, point), Phase(p) = "running",
         point \notin {"saved", "removed", "done", "crashed"}
  PROVE  Phases' = Phases
<1>1. Phases' = [Phases EXCEPT ![p] = "running"]
  BY PhaseStep
<1>2. QED
  BY <1>1 DEF Phases

LEMMA RunningPhase ==
  ASSUME NEW p \in Proc, pc[p] \notin {"saved", "removed", "done", "crashed"}
  PROVE  Phase(p) = "running" /\ Phases[p] = "running"
BY DEF Phase, Phases

(* The register's step of p that reports r and changes nothing else. *)
LEMMA ReportsOnly ==
  ASSUME FileInv, NEW p \in Proc, NEW r, pc[p] # "done", Finish(p, r),
         UNCHANGED <<disk, retired>>
  PROVE  Register!Report(p, r)
<1>1. result[p] = "none" /\ result' = [result EXCEPT ![p] = r]
  BY DEF FileInv, PlaceInv, Finish
<1>2. Phases' = [Phases EXCEPT ![p] = "ended"]
  BY PhaseStep DEF Finish
<1>3. QED
  BY <1>1, <1>2 DEF Register!Report, Phases

LEMMA LooksOnly ==
  ASSUME FileInv, NEW p \in Proc, NEW r,
         pc[p] \notin {"saved", "removed", "done", "crashed"}, Finish(p, r),
         UNCHANGED <<disk, retired>>,
         \/ disk \in Record /\ r \in {"healthy", "expiring", "expired", "session"}
         \/ disk = NoFile /\ r = "missing"
         \/ r \in Register!Failures
  PROVE  Register!Next
<1>1. Register!Report(p, r) /\ Phases[p] = "running"
  BY ReportsOnly, RunningPhase
<1>2. Register!Look(p)
  BY <1>1 DEF Register!Look, Phases
<1>3. QED
  BY <1>2 DEF Register!Next

(* The register's step of p that acts and reports nothing. *)
LEMMA ActsOnly ==
  ASSUME FileInv, NEW p \in Proc, NEW point, NEW act,
         pc[p] \notin {"saved", "removed", "done", "crashed"}, Goto(p, point),
         UNCHANGED result,
         (point = "saved" /\ act = "stored") \/ (point = "removed" /\ act = "cleared")
  PROVE  Register!Act(p, act)
<1>1. Phases' = [Phases EXCEPT ![p] = act]
  BY PhaseStep
<1>2. QED
  BY <1>1, RunningPhase DEF Register!Act, Phases

LEMMA RegisterInit == Init => Register!Init
<1> SUFFICES ASSUME Init PROVE Register!Init
  OBVIOUS
<1>1. disk \in Record \cup {NoFile, BadFile}
  BY FileInit DEF FileInv, TypeOK
<1>2. \A p \in Proc : Phase(p) = "running"
  BY DEF Init, FirstPoint, Phase
<1>3. QED
  BY <1>1, <1>2 DEF Init, Register!Init

(* Each step of a process is a step of the register or leaves it alone: a  *)
(* rename puts a new chain or renews the one that is there, a removal      *)
(* clears, their return confirms, every other report looks, and a process  *)
(* that is killed dies.                                                    *)
LEMMA RegisterStep ==
  ASSUME FileInv, [Next]_vars
  PROVE  [Register!Next]_(Register!vars)
<1> DEFINE Silent == UNCHANGED <<disk, result, retired>> /\ Phases' = Phases
<1>1. Silent => UNCHANGED Register!vars
  BY DEF Register!vars, Phases
<1>2. ASSUME NEW p \in Proc, ReplaceFile(p) PROVE Register!Next
  <2>1. /\ pc[p] = "replace" /\ Saving(p) /\ Carries(p) /\ disk' = held[p] /\ held[p] \in Record
        /\ ChainOf(p) = held[p].chain /\ GenOf(p) = held[p].gen
    BY <1>2 DEF ReplaceFile, FileInv, PlaceInv, Saving, InMemory, Carries, ChainOf, GenOf
  <2>2. /\ retired' = retired \cup (ChainsOf(disk) \ ChainsOf(disk'))
        /\ Goto(p, "saved") /\ UNCHANGED result
    BY <1>2 DEF ReplaceFile
  <2>3. ChainsOf(disk) = Register!CurrentChain /\ ChainsOf(disk') = {held[p].chain}
    BY <2>1 DEF ChainsOf, Register!CurrentChain
  <2>4. Register!Act(p, "stored")
    BY <2>1, <2>2, ActsOnly
  <2>5. CASE cmd[p] = "login"
    <3>1. held[p].chain \notin retired \cup Register!CurrentChain
      BY <2>1, <2>3, <2>5 DEF FileInv, GrantInv
    <3>2. retired' = retired \cup Register!CurrentChain
      BY <2>2, <2>3, <3>1
    <3>3. Register!Put(p)
      BY <2>1, <2>4, <3>1, <3>2 DEF Register!Put
    <3>4. QED
      BY <3>3 DEF Register!Next
  <2>6. CASE cmd[p] # "login"
    <3>1. disk \in Record /\ held[p].chain = disk.chain /\ held[p].gen > disk.gen
      BY <2>1, <2>6 DEF FileInv, GrantInv
    <3>2. retired' = retired
      BY <2>2, <2>3, <3>1 DEF ChainsOf
    <3>3. Register!Renew(p)
      BY <2>1, <2>4, <3>1, <3>2 DEF Register!Renew
    <3>4. QED
      BY <3>3 DEF Register!Next
  <2>7. QED
    BY <2>5, <2>6
<1>3. ASSUME NEW p \in Proc, Remove(p) PROVE Register!Next
  <2>1. pc[p] = "remove"
    BY <1>3 DEF Remove
  <2>2. CASE /\ disk' = NoFile /\ retired' = retired \cup ChainsOf(disk)
             /\ Goto(p, "removed") /\ UNCHANGED <<lock, wire, result>>
    <3>1. Register!Act(p, "cleared")
      BY <2>1, <2>2, ActsOnly
    <3>2. Register!Clear(p)
      BY <2>2, <3>1 DEF ChainsOf, Register!Clear, Register!CurrentChain
    <3>3. QED
      BY <3>2 DEF Register!Next
  <2>3. CASE Finish(p, "CREDENTIAL_STORE_UNAVAILABLE") /\ UNCHANGED <<disk, retired>>
    BY <2>1, <2>3, LooksOnly DEF Register!Failures
  <2>4. QED
    BY <1>3, <2>2, <2>3 DEF Remove
<1>4. ASSUME NEW p \in Proc, Conclude(p) PROVE Register!Next
  <2>1. UNCHANGED <<disk, retired>>
    BY <1>4 DEF Conclude
  <2>2. CASE pc[p] = "saved" /\ Finish(p, IF cmd[p] = "session" THEN "session" ELSE "healthy")
    <3>1. Phases[p] = "stored"
      BY <2>2 DEF Phase, Phases
    <3>2. \E r \in {"healthy", "session"} : Register!Report(p, r)
      BY <2>1, <2>2, ReportsOnly
    <3>3. QED
      BY <3>1, <3>2 DEF Register!Confirm, Register!Next, Phases
  <2>3. CASE pc[p] = "removed" /\ Finish(p, "missing")
    <3>1. Phases[p] = "cleared"
      BY <2>3 DEF Phase, Phases
    <3>2. Register!Report(p, "missing")
      BY <2>1, <2>3, ReportsOnly
    <3>3. QED
      BY <3>1, <3>2 DEF Register!Confirm, Register!Next, Phases
  <2>4. QED
    BY <1>4, <2>2, <2>3 DEF Conclude
<1>5. ASSUME NEW p \in Proc, Crash(p) PROVE Register!Next
  <2>1. /\ pc[p] \notin {"done", "crashed"} /\ Goto(p, "crashed")
        /\ UNCHANGED <<disk, result, retired>>
    BY <1>5 DEF Crash
  <2>2. Phases' = [Phases EXCEPT ![p] = "ended"]
    BY <2>1, PhaseStep
  <2>3. Phases[p] # "ended"
    BY <2>1 DEF Phase, Phases
  <2>4. Register!Die(p)
    BY <2>1, <2>2, <2>3 DEF Register!Die, Phases
  <2>5. QED
    BY <2>4 DEF Register!Next
<1>6. ASSUME NEW p \in Proc, Load(p) PROVE Register!Next \/ Silent
  <2>1. UNCHANGED <<disk, retired>> /\ pc[p] = "load"
    BY <1>6 DEF Load
  <2>2. CASE Finish(p, "CREDENTIAL_STORE_UNAVAILABLE") \/ Finish(p, "CREDENTIALS_INVALID")
    BY <2>1, <2>2, LooksOnly DEF Register!Failures
  <2>3. CASE disk = NoFile
             /\ Finish(p, IF cmd[p] = "status" THEN "missing" ELSE "AUTHENTICATION_REQUIRED")
    BY <2>1, <2>3, LooksOnly DEF Register!Failures
  <2>4. CASE /\ disk \in Record
             /\ Finish(p, IF cmd[p] = "status" THEN StateOf(disk)
                          ELSE IF StateOf(disk) = "expired" THEN "SESSION_EXPIRED"
                          ELSE "session")
    <3>1. StateOf(disk) \in {"healthy", "expiring", "expired"}
      BY DEF StateOf
    <3>2. CASE cmd[p] = "status"
      BY <2>1, <2>4, <3>1, <3>2, LooksOnly
    <3>3. CASE cmd[p] # "status" /\ StateOf(disk) = "expired"
      BY <2>1, <2>4, <3>3, LooksOnly DEF Register!Failures
    <3>4. CASE cmd[p] # "status" /\ StateOf(disk) # "expired"
      BY <2>1, <2>4, <3>4, LooksOnly
    <3>5. QED
      BY <3>2, <3>3, <3>4
  <2>5. CASE Goto(p, "request") /\ UNCHANGED <<lock, result, wire>>
    BY <2>1, <2>5, RunningPhase, PhaseStays
  <2>6. QED
    BY <1>6, <2>2, <2>3, <2>4, <2>5 DEF Load
<1>7. ASSUME NEW p \in Proc, Doctor(p) PROVE Register!Next
  <2>1. UNCHANGED <<disk, retired>> /\ pc[p] = "doctor"
    BY <1>7 DEF Doctor
  <2>2. StateOf(disk) \in {"healthy", "expiring", "expired"}
    BY DEF StateOf
  <2>3. QED
    BY <1>7, <2>1, <2>2, LooksOnly DEF Doctor, Register!Failures
<1>8. ASSUME NEW p \in Proc, Receive(p) PROVE Register!Next \/ Silent
  <2>1. UNCHANGED <<disk, retired>> /\ pc[p] = "reply"
    BY <1>8 DEF Receive
  <2>2. CASE Finish(p, IF cmd[p] = "login" THEN "INVALID_CUSTOM_TOKEN"
                       ELSE "INVALID_REFRESH_TOKEN")
             \/ Finish(p, "AUTH_CALL_FAILED")
    BY <2>1, <2>2, LooksOnly DEF Register!Failures
  <2>3. CASE AfterAnswer(cmd[p]) = "done" /\ Finish(p, "session")
    <3>1. cmd[p] # "login"
      BY <2>3 DEF AfterAnswer
    <3>2. disk \in Record
      BY <1>8, <3>1 DEF Receive, Refreshing, FileInv, RefreshInv
    <3>3. QED
      BY <2>1, <2>3, <3>2, LooksOnly
  <2>4. CASE /\ AfterAnswer(cmd[p]) # "done" /\ Goto(p, AfterAnswer(cmd[p]))
             /\ UNCHANGED <<lock, result, lost>>
    <3>1. AfterAnswer(cmd[p]) \notin {"saved", "removed", "done", "crashed"}
      BY <2>4 DEF AfterAnswer
    <3>2. QED
      BY <2>1, <2>4, <3>1, RunningPhase, PhaseStays
  <2>5. QED
    BY <1>8, <2>2, <2>3, <2>4 DEF Receive
<1>9. ASSUME NEW p \in Proc,
             LoginPrompts(p) \/ LockFails(p) \/ CallFails(p) \/ SaveFails(p)
      PROVE  Register!Next \/ Silent
  <2>1. /\ UNCHANGED <<disk, retired>>
        /\ pc[p] \in {"prompt", "lock", "signin", "request", "reply", "create", "write", "replace"}
    BY <1>9 DEF LoginPrompts, LockFails, CallFails, SaveFails, Saving
  <2>2. \/ Goto(p, "signin") /\ UNCHANGED result
        \/ Finish(p, "LOGIN_REFUSED") \/ Finish(p, "CREDENTIAL_STORE_UNAVAILABLE")
        \/ Finish(p, "AUTH_CALL_FAILED")
    BY <1>9 DEF LoginPrompts, LockFails, CallFails, SaveFails
  <2>3. CASE Goto(p, "signin") /\ UNCHANGED result
    BY <2>1, <2>3, RunningPhase, PhaseStays
  <2>4. QED
    BY <2>1, <2>2, <2>3, LooksOnly DEF Register!Failures
<1>10. ASSUME NEW p \in Proc,
             \/ SignIn(p) \/ AcquireLock(p) \/ RemoteRefresh(p) \/ CreateTemp(p)
             \/ WriteTemp(p)
      PROVE  Silent
  <2>1. /\ UNCHANGED <<disk, result, retired>>
        /\ pc[p] \in {"signin", "lock", "request", "create", "write"}
    BY <1>10 DEF SignIn, AcquireLock, RemoteRefresh, CreateTemp, WriteTemp
  <2>2. \E point \in {"reply", "create", "remove", "load", "write", "replace"} : Goto(p, point)
    BY <1>10 DEF SignIn, AcquireLock, UnderLock, RemoteRefresh, CreateTemp, WriteTemp
  <2>3. QED
    BY <2>1, <2>2, RunningPhase, PhaseStays
<1>11. CASE (\E t \in accepted : Revoke(t)) \/ Tick \/ UNCHANGED vars
  BY <1>1, <1>11 DEF Revoke, Tick, vars, Phases, Phase
<1>12. QED
  BY <1>1, <1>2, <1>3, <1>4, <1>5, <1>6, <1>7, <1>8, <1>9, <1>10, <1>11, WhoSteps
     DEF Steps, Progress

(* The store implements the atomic register, for any number of processes:  *)
(* each invocation acts on the file at most once, in one instant; a        *)
(* failure is reported only by one that has not acted, and one that is     *)
(* killed has acted wholly or not at all.                                  *)
THEOREM StoreIsRegister == Spec => ImplementsRegister
<1>1. FileInv /\ [Next]_vars => [Register!Next]_(Register!vars)
  BY RegisterStep
<1>2. QED
  BY RegisterInit, <1>1, FileInvariant, PTL DEF Spec, ImplementsRegister, Register!Spec

=============================================================================
