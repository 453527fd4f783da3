------------------------ MODULE TerminalSecretProofs ------------------------
(***************************************************************************)
(* Proofs, for any number of prompts and any signals, of what              *)
(* MCTerminalSecret checks for the two prompts of login.                   *)
(***************************************************************************)
EXTENDS TerminalSecretProps, TLAPS

(* Each terminal is restored once: busy has one owner, and nobody goes on  *)
(* before it is done.                                                      *)
OnceInv ==
  /\ \A k \in Prompt :
       /\ k > now => watcher[k] = "none" /\ once[k] = "new"
       /\ k < now => once[k] = "done"
       /\ watcher[k] = "restoring" => once[k] = "busy" /\ (k = now => reader # "restoring")
       /\ watcher[k] \in {"terminate", "raise"} => once[k] = "done"
  /\ reader = "restoring" => once[now] = "busy"
  /\ reader \in {"start", "make raw"} => watcher[now] = "none" /\ once[now] = "new"
  /\ reader \in {"stop", "select", "returned", "terminate", "raise"} =>
       once[now] = "done" \/ result = "error"

(* The terminal is raw between MakeRaw and the first restoration. *)
TtyInv ==
  /\ IF Reading THEN tty = "raw" <=> once[now] # "done" ELSE tty = "cooked"
  /\ reader = "read" /\ once[now] = "done" => watcher[now] \in {"terminate", "raise"}

(* While the terminal may be raw, only a goroutine that is about to raise  *)
(* its signal has given a signal its default action back.                  *)
RelayInv ==
  reader = "make raw" \/ Reading =>
    \A s \in Signals :
      s \in relayed[now] \/ \E k \in Prompt : k <= now /\ watcher[k] = "raise"

(* The inductive invariant. *)
SecretInv == TypeOK /\ OnceInv /\ TtyInv /\ RelayInv /\ TerminalIsRestored

-----------------------------------------------------------------------------
LEMMA SecretInit == Init => SecretInv
<1>. SUFFICES ASSUME Init PROVE SecretInv
  OBVIOUS
<1>1. 1 \in Prompt /\ \A k \in Prompt : k \in Nat /\ k >= 1
  BY PromptAssumption DEF Prompt
<1>2. TypeOK
  BY <1>1, BoundAssumption DEF Init, TypeOK
<1>3. OnceInv /\ TtyInv /\ RelayInv /\ TerminalIsRestored
  BY <1>1 DEF Init, OnceInv, TtyInv, RelayInv, TerminalIsRestored, Reading
<1>. QED BY <1>2, <1>3 DEF SecretInv

(* Types, action by action. *)
LEMMA TypeStep == SecretInv /\ Next /\ ~Kill => TypeOK'
<1>. SUFFICES ASSUME SecretInv, Next, ~Kill PROVE TypeOK'
  OBVIOUS
<1>. USE DEF main, goroutines
<1>0. TypeOK /\ now \in Prompt
  BY DEF SecretInv, TypeOK
<1>1. CASE Notify
  BY <1>0, <1>1 DEF TypeOK, Notify
<1>2. CASE MakeRaw
  BY <1>0, <1>2 DEF TypeOK, MakeRaw
<1>3. CASE Read
  BY <1>0, <1>3 DEF TypeOK, Read
<1>4. CASE ReaderRestores
  BY <1>0, <1>4 DEF TypeOK, ReaderRestores
<1>5. CASE Stop
  BY <1>0, <1>5 DEF TypeOK, Stop
<1>6. CASE Select
  BY <1>0, <1>6, SignalAssumption DEF TypeOK, Select, Found
<1>7. CASE Proceed
  <2>1. now < Prompts => now + 1 \in Prompt
    BY <1>0, PromptAssumption DEF Prompt
  <2>. QED BY <1>0, <1>7, <2>1 DEF TypeOK, Proceed
<1>8. CASE ReaderTerminates
  BY <1>0, <1>8 DEF TypeOK, ReaderTerminates, Unrelay
<1>9. ASSUME NEW k \in Prompt, Watch(k) PROVE TypeOK'
  BY <1>0, <1>9 DEF TypeOK, Watch
<1>10. ASSUME NEW k \in Prompt, WatcherRestores(k) PROVE TypeOK'
  BY <1>0, <1>10 DEF TypeOK, WatcherRestores
<1>11. ASSUME NEW k \in Prompt, WatcherTerminates(k) PROVE TypeOK'
  <2>1. relayed' \in [Prompt -> SUBSET Signals]
    <3>1. relayed' = relayed \/ relayed' = [i \in Prompt |-> relayed[i] \ {taken[k]}]
      BY <1>11 DEF WatcherTerminates, Unrelay
    <3>2. relayed \in [Prompt -> SUBSET Signals]
      BY <1>0 DEF TypeOK
    <3>. QED BY <3>1, <3>2
  <2>2. /\ watcher' \in [Prompt -> {"none", "waiting", "restore", "restoring", "terminate",
                                    "raise", "gone"}]
        /\ \A i \in Prompt :
             watcher'[i] \in {"restore", "restoring", "terminate", "raise"} =>
               taken'[i] # NoSignal
    BY <1>0, <1>11 DEF TypeOK, WatcherTerminates
  <2>. QED BY <1>0, <1>11, <2>1, <2>2 DEF TypeOK, WatcherTerminates
<1>12. ASSUME NEW s \in Signals, Signal(s) PROVE TypeOK'
  <2>1. signals' \in [Prompt -> Signals \cup {NoSignal}]
    BY <1>0, <1>12 DEF TypeOK, Signal
  <2>2. sent' \in 0 .. MaxSignals
    <3>1. sent < MaxSignals /\ sent' = sent + 1
      BY <1>12 DEF Signal
    <3>2. sent \in 0 .. MaxSignals
      BY <1>0 DEF TypeOK
    <3>. QED BY <3>1, <3>2, BoundAssumption
  <2>3. caught' \subseteq Signals /\ process' \in {"running", "ended", "killed"}
    BY <1>0, <1>12 DEF TypeOK, Signal
  <2>. QED BY <1>0, <1>12, <2>1, <2>2, <2>3 DEF TypeOK, Signal
<1>. QED BY <1>1, <1>2, <1>3, <1>4, <1>5, <1>6, <1>7, <1>8, <1>9, <1>10, <1>11, <1>12
         DEF Next, ReaderStep, WatcherStep

(* The steps of the reader. *)
LEMMA ReaderKeeps ==
  ASSUME SecretInv, process = "running", ReaderStep \/ Read
  PROVE  OnceInv' /\ TtyInv' /\ RelayInv' /\ TerminalIsRestored'
<1>. USE DEF main, goroutines
<1>0. /\ TypeOK /\ OnceInv /\ TtyInv /\ RelayInv /\ now \in Prompt
      /\ \A k \in Prompt : k \in Int
  <2>1. TypeOK /\ OnceInv /\ TtyInv /\ RelayInv
    BY DEF SecretInv
  <2>2. now \in Prompt
    BY <2>1 DEF TypeOK
  <2>. QED BY <2>1, <2>2, PromptAssumption DEF Prompt
<1>1. CASE Notify
  BY <1>0, <1>1 DEF TypeOK, OnceInv, TtyInv, RelayInv, TerminalIsRestored, Reading, Notify
<1>2. CASE MakeRaw
  BY <1>0, <1>2 DEF TypeOK, OnceInv, TtyInv, RelayInv, TerminalIsRestored, Reading, MakeRaw
<1>3. CASE Read
  BY <1>0, <1>3 DEF TypeOK, OnceInv, TtyInv, RelayInv, TerminalIsRestored, Reading, Read
<1>4. CASE ReaderRestores
  BY <1>0, <1>4 DEF TypeOK, OnceInv, TtyInv, RelayInv, TerminalIsRestored, Reading,
                    ReaderRestores, SkipIfDone
<1>5. CASE Stop
  BY <1>0, <1>5 DEF TypeOK, OnceInv, TtyInv, RelayInv, TerminalIsRestored, Reading, Stop
<1>6. CASE Select
  BY <1>0, <1>6 DEF TypeOK, OnceInv, TtyInv, RelayInv, TerminalIsRestored, Reading, Select
<1>7. CASE Proceed
  <2>1. reader = "returned" /\ tty = "cooked" /\ UNCHANGED <<tty, once, watcher, relayed>>
    BY <1>0, <1>7 DEF TtyInv, Reading, Proceed
  <2>2. CASE result = "value" /\ now < Prompts /\ now' = now + 1 /\ reader' = "start"
             /\ UNCHANGED process
    <3>1. now + 1 \in Prompt
      BY <1>0, <2>2, PromptAssumption DEF Prompt
    <3>2. once[now] = "done"
      BY <1>0, <2>1, <2>2 DEF OnceInv
    <3>3. watcher[now + 1] = "none" /\ once[now + 1] = "new"
      <4>1. now + 1 > now
        BY <1>0
      <4>. QED BY <1>0, <3>1, <4>1 DEF OnceInv
    <3>4. OnceInv'
      BY <1>0, <2>1, <2>2, <3>1, <3>2, <3>3 DEF OnceInv
    <3>. QED BY <2>1, <2>2, <3>4 DEF TtyInv, RelayInv, TerminalIsRestored, Reading
  <2>3. CASE process' = "ended" /\ UNCHANGED <<now, reader, result>>
    BY <1>0, <2>1, <2>3 DEF OnceInv, TtyInv, RelayInv, TerminalIsRestored, Reading
  <2>. QED BY <1>7, <2>2, <2>3 DEF Proceed
<1>8. CASE ReaderTerminates
  BY <1>0, <1>8 DEF TypeOK, OnceInv, TtyInv, RelayInv, TerminalIsRestored, Reading,
                    ReaderTerminates
<1>. QED BY <1>1, <1>2, <1>3, <1>4, <1>5, <1>6, <1>7, <1>8 DEF ReaderStep

(* The steps of a goroutine. *)
LEMMA WatcherKeeps ==
  ASSUME SecretInv, process = "running", NEW k \in Prompt, WatcherStep(k)
  PROVE  OnceInv' /\ TtyInv' /\ RelayInv' /\ TerminalIsRestored'
<1>. USE DEF main, goroutines
<1>0. /\ TypeOK /\ OnceInv /\ TtyInv /\ RelayInv /\ now \in Prompt
      /\ \A i \in Prompt : i \in Int
  <2>1. TypeOK /\ OnceInv /\ TtyInv /\ RelayInv
    BY DEF SecretInv
  <2>2. now \in Prompt
    BY <2>1 DEF TypeOK
  <2>. QED BY <2>1, <2>2, PromptAssumption DEF Prompt
<1>t. /\ DOMAIN watcher = Prompt /\ DOMAIN once = Prompt /\ DOMAIN relayed = Prompt
      /\ watcher = [i \in Prompt |-> watcher[i]] /\ once = [i \in Prompt |-> once[i]]
  BY <1>0 DEF TypeOK
<1>k. /\ k \in Int /\ now \in Int /\ tty \in {"cooked", "raw"}
      /\ k > now => watcher[k] = "none" /\ once[k] = "new"
      /\ k < now => once[k] = "done"
      /\ watcher[k] = "restoring" => once[k] = "busy" /\ (k = now => reader # "restoring")
      /\ watcher[k] \in {"terminate", "raise"} => once[k] = "done"
  BY <1>0 DEF OnceInv, TypeOK
<1>1. CASE Watch(k)
  <2>1. /\ watcher[k] = "waiting"
        /\ \E w \in {"restore", "gone"} : watcher' = [watcher EXCEPT ![k] = w]
        /\ UNCHANGED <<process, tty, now, reader, result, relayed, once>>
    BY <1>1 DEF Watch
  <2>2. \A i \in Prompt : watcher'[i] = watcher[i] \/ (i = k /\ watcher'[i] \in {"restore", "gone"})
    BY <1>t, <2>1
  <2>3. OnceInv'
    BY <1>0, <2>1, <2>2 DEF OnceInv
  <2>4. TtyInv'
    BY <1>0, <2>1, <2>2 DEF TtyInv, Reading
  <2>5. RelayInv'
    BY <1>0, <2>1, <2>2 DEF RelayInv, Reading
  <2>. QED BY <2>1, <2>3, <2>4, <2>5 DEF TerminalIsRestored
<1>2. CASE WatcherRestores(k)
  <2>1. /\ watcher[k] \in {"restore", "restoring"}
        /\ UNCHANGED <<process, now, reader, result, relayed>>
    BY <1>2 DEF WatcherRestores
  <2>2. CASE once[k] = "new" /\ once' = [once EXCEPT ![k] = "busy"]
             /\ watcher' = [watcher EXCEPT ![k] = "restoring"] /\ tty' = tty
    <3>1. \A i \in Prompt :
            IF i = k THEN watcher'[i] = "restoring" /\ once'[i] = "busy"
                     ELSE watcher'[i] = watcher[i] /\ once'[i] = once[i]
      BY <1>t, <2>2
    <3>2. OnceInv'
      <4>1. k = now
        BY <1>k, <2>1, <2>2
      <4>2. reader \notin {"start", "make raw", "restoring"}
        BY <1>0, <2>1, <2>2, <4>1 DEF OnceInv
      <4>3. /\ UNCHANGED <<now, reader, result>>
            /\ \A i \in Prompt : i # k => watcher'[i] = watcher[i] /\ once'[i] = once[i]
            /\ watcher'[k] = "restoring" /\ once'[k] = "busy" /\ once[k] = "new"
        BY <2>1, <2>2, <3>1
      <4>. QED BY <1>0, <4>1, <4>2, <4>3 DEF OnceInv
    <3>3. TtyInv'
      BY <1>0, <2>1, <2>2, <3>1 DEF TtyInv, Reading
    <3>4. RelayInv'
      BY <1>0, <2>1, <2>2, <3>1 DEF RelayInv, Reading
    <3>. QED BY <2>1, <3>2, <3>3, <3>4 DEF TerminalIsRestored
  <2>3. CASE \/ watcher[k] = "restoring" /\ tty' = "cooked" /\ once' = [once EXCEPT ![k] = "done"]
             \/ once[k] = "done" /\ UNCHANGED <<tty, once>>
    <3>0. watcher' = [watcher EXCEPT ![k] = "terminate"]
      BY <1>0, <1>2, <2>3 DEF WatcherRestores, OnceInv
    <3>1. \A i \in Prompt :
            IF i = k THEN watcher'[i] = "terminate" /\ once'[i] = "done"
                     ELSE watcher'[i] = watcher[i] /\ once'[i] = once[i]
      BY <1>t, <2>3, <3>0
    <3>2. OnceInv'
      BY <1>0, <2>1, <2>3, <3>1 DEF OnceInv
    <3>3. TtyInv'
      <4>1. CASE watcher[k] = "restoring" /\ tty' = "cooked"
        <5>1. k = now
          BY <1>k, <4>1
        <5>. QED BY <1>0, <2>1, <3>1, <4>1, <5>1 DEF TtyInv, Reading
      <4>2. CASE once[k] = "done" /\ tty' = tty
        BY <1>0, <2>1, <3>1, <4>2 DEF TtyInv, Reading
      <4>. QED BY <2>3, <4>1, <4>2
    <3>4. RelayInv'
      BY <1>0, <2>1, <3>1 DEF RelayInv, Reading
    <3>. QED BY <2>1, <3>2, <3>3, <3>4 DEF TerminalIsRestored
  <2>. QED BY <1>2, <2>2, <2>3 DEF WatcherRestores, SkipIfDone
<1>3. CASE WatcherTerminates(k)
  <2>1. UNCHANGED <<tty, now, reader, result, once>>
    BY <1>3 DEF WatcherTerminates
  <2>2. CASE watcher[k] = "terminate" /\ Unrelay(taken[k]) /\ process' = process
             /\ watcher' = [watcher EXCEPT ![k] = "raise"]
    <3>1. \A i \in Prompt :
            /\ watcher'[i] = IF i = k THEN "raise" ELSE watcher[i]
            /\ relayed'[i] = relayed[i] \ {taken[k]}
      BY <1>t, <2>2 DEF Unrelay
    <3>2. OnceInv'
      <4>1. /\ UNCHANGED <<now, reader, result, once>>
            /\ \A i \in Prompt : i # k => watcher'[i] = watcher[i]
            /\ watcher'[k] = "raise" /\ once[k] = "done" /\ k <= now
        BY <1>k, <2>1, <2>2, <3>1
      <4>. QED BY <1>0, <1>k, <2>2, <4>1 DEF OnceInv
    <3>5. TtyInv'
      BY <1>0, <2>1, <2>2, <3>1 DEF TtyInv, Reading
    <3>3. RelayInv'
      <4>1. k <= now
        BY <1>k, <2>2
      <4>. QED BY <1>0, <2>1, <3>1, <4>1 DEF RelayInv, Reading
    <3>. QED BY <2>2, <3>2, <3>3, <3>5 DEF TerminalIsRestored
  <2>3. CASE watcher[k] = "raise" /\ UNCHANGED <<relayed, watcher>>
    <3>1. OnceInv' /\ TtyInv' /\ RelayInv'
      BY <1>0, <2>1, <2>3 DEF OnceInv, TtyInv, RelayInv, Reading
    <3>2. tty = "raw" => k < now /\ Reading
      BY <1>0, <1>k, <2>3 DEF TtyInv
    <3>. QED BY <2>1, <2>3, <3>1, <3>2 DEF TerminalIsRestored, Late, Reading
  <2>. QED BY <1>3, <2>2, <2>3 DEF WatcherTerminates
<1>. QED BY <1>1, <1>2, <1>3 DEF WatcherStep

(* A caught signal ends the process at once only where the terminal is     *)
(* cooked, or where a goroutine is late.                                   *)
LEMMA SignalKeeps ==
  ASSUME SecretInv, process = "running", NEW s \in Signals, Signal(s)
  PROVE  OnceInv' /\ TtyInv' /\ RelayInv' /\ TerminalIsRestored'
<1>. USE DEF main, goroutines
<1>0. /\ TypeOK /\ OnceInv /\ TtyInv /\ RelayInv /\ now \in Prompt
      /\ \A i \in Prompt : i \in Int
  <2>1. TypeOK /\ OnceInv /\ TtyInv /\ RelayInv
    BY DEF SecretInv
  <2>2. now \in Prompt
    BY <2>1 DEF TypeOK
  <2>. QED BY <2>1, <2>2, PromptAssumption DEF Prompt
<1>1. OnceInv' /\ TtyInv' /\ RelayInv'
  BY <1>0 DEF OnceInv, TtyInv, RelayInv, Reading, Signal
<1>2. TerminalIsRestored'
  <2>1. SUFFICES ASSUME process' # "running", tty = "raw" PROVE Reading /\ Late'
    BY DEF Signal, TerminalIsRestored, Reading
  <2>2. s \notin relayed[now]
    BY <1>0, <2>1 DEF Signal
  <2>3. CASE Reading
    <3>1. PICK k \in Prompt : k <= now /\ watcher[k] = "raise"
      BY <1>0, <2>2, <2>3 DEF RelayInv
    <3>2. CASE k = now
      BY <1>0, <2>1, <2>3, <3>1, <3>2 DEF OnceInv, TtyInv, TypeOK
    <3>3. CASE k < now
      BY <2>3, <3>1, <3>3 DEF Late, Signal
    <3>. QED BY <1>0, <3>1, <3>2, <3>3
  <2>4. CASE ~Reading
    BY <1>0, <2>1, <2>4 DEF TtyInv
  <2>. QED BY <2>3, <2>4
<1>. QED BY <1>1, <1>2

(* A kill changes nothing but the process, and the terminal is raw only    *)
(* while a prompt is open.                                                 *)
LEMMA KillKeeps ==
  ASSUME SecretInv, Kill
  PROVE  SecretInv'
<1>. USE DEF main, goroutines, SecretInv
<1>1. TypeOK'
  BY DEF Kill, TypeOK
<1>2. OnceInv' /\ TtyInv' /\ RelayInv'
  BY DEF Kill, OnceInv, TtyInv, RelayInv, Reading
<1>3. TerminalIsRestored'
  BY <1>2 DEF Kill, TerminalIsRestored, TtyInv
<1>. QED BY <1>1, <1>2, <1>3

LEMMA SecretStep == SecretInv /\ [Next]_vars => SecretInv'
<1>. SUFFICES ASSUME SecretInv, [Next]_vars PROVE SecretInv'
  OBVIOUS
<1>1. CASE Next /\ ~Kill
  <2>1. OnceInv' /\ TtyInv' /\ RelayInv' /\ TerminalIsRestored'
    BY <1>1, ReaderKeeps, WatcherKeeps, SignalKeeps DEF Next
  <2>. QED BY <1>1, <2>1, TypeStep DEF SecretInv
<1>2. CASE UNCHANGED vars
  <2>1. TypeOK'
    BY <1>2 DEF vars, main, goroutines, SecretInv, TypeOK
  <2>2. OnceInv' /\ TtyInv' /\ RelayInv'
    BY <1>2 DEF vars, main, goroutines, SecretInv, OnceInv, TtyInv, RelayInv, Reading
  <2>3. TerminalIsRestored'
    BY <1>2 DEF vars, main, goroutines, SecretInv, TerminalIsRestored, Late, Reading
  <2>. QED BY <2>1, <2>2, <2>3 DEF SecretInv
<1>. QED BY <1>1, <1>2, KillKeeps

(* The inductive invariant holds. *)
THEOREM SecretInvariant == Spec => []SecretInv
BY SecretInit, SecretStep, PTL DEF Spec

(* Type correctness: TerminalSecret's variables stay in their domains.     *)
THEOREM SecretTypes == Spec => []TypeOK
<1>1. SecretInv => TypeOK
  BY DEF SecretInv
<1>. QED BY <1>1, SecretInvariant, PTL

(* For any number of prompts and any signals, an ended process leaves a    *)
(* raw terminal behind (readSecretWithSignalRestore) only out of an open   *)
(* prompt, and only if it was killed by a signal outside passwordSignals   *)
(* or a goroutine of an earlier prompt is late.                            *)
THEOREM TerminalRestored == Spec => []TerminalIsRestored
<1>1. SecretInv => TerminalIsRestored
  BY DEF SecretInv
<1>. QED BY <1>1, SecretInvariant, PTL

(* For any number of prompts, no secret is echoed while it is typed.       *)
THEOREM NeverEchoed == Spec => []NoEcho
<1>1. SecretInv => NoEcho
  BY DEF SecretInv, TtyInv, Reading, NoEcho
<1>. QED BY <1>1, SecretInvariant, PTL
=============================================================================
