--------------------------- MODULE TerminalSecret ---------------------------
(***************************************************************************)
(* The private prompts of login (internal/auth/os_terminal.go).  A prompt  *)
(* puts the terminal into raw mode and reads a secret, while a goroutine   *)
(* of its own waits for a signal, restores the terminal and lets the       *)
(* signal end the process.  The reader restores the terminal too, looks    *)
(* for a signal nobody has taken, and dismisses the goroutine.  Login      *)
(* prompts in turn; between two prompts it sends a request.  Any other     *)
(* signal than passwordSignals ends the process without its knowing.       *)
(***************************************************************************)
EXTENDS Integers

CONSTANTS
  Prompts,      \* the number of prompts
  Signals,      \* passwordSignals
  Interrupt,    \* the one of them that ^C stands for
  MaxSignals,   \* the bound on the signals sent
  NoSignal

ASSUME PromptAssumption == Prompts \in Nat \ {0}
ASSUME SignalAssumption == Interrupt \in Signals /\ NoSignal \notin Signals
ASSUME BoundAssumption == MaxSignals \in Nat

Prompt == 1 .. Prompts

VARIABLES
  process,    \* "running", "ended" or, by a signal it has no say in, "killed"
  tty,        \* "cooked": lines with echo; "raw"
  now,        \* the prompt the reader is at, or has last been at
  reader,     \* where the reader is
  result,     \* what readRawSecret returned
  pending,    \* the signal that waits to be raised by the reader
  relayed,    \* relayed[k]: the signals relayed to prompt k's channel
  signals,    \* signals[k]: the channel, of capacity one
  once,       \* once[k]: restoreOnce: "new", "busy" or "done"
  closed,     \* the prompts whose done is closed
  watcher,    \* watcher[k]: where k's goroutine is
  taken,      \* taken[k]: the signal it has taken
  sent,       \* the number of signals sent so far
  caught      \* history: the signals that went into a channel

main == <<now, reader, result, pending>>
goroutines == <<watcher, taken>>
vars == <<process, tty, main, relayed, signals, once, closed, goroutines, sent, caught>>

Init ==
  /\ process = "running" /\ tty = "cooked"
  /\ now = 1 /\ reader = "start" /\ result = "none" /\ pending = NoSignal
  /\ relayed = [k \in Prompt |-> {}]
  /\ signals = [k \in Prompt |-> NoSignal]
  /\ once = [k \in Prompt |-> "new"]
  /\ closed = {}
  /\ watcher = [k \in Prompt |-> "none"]
  /\ taken = [k \in Prompt |-> NoSignal]
  /\ sent = 0 /\ caught = {}

-----------------------------------------------------------------------------
(* signal.Notify *)
Notify ==
  /\ reader = "start"
  /\ relayed' = [relayed EXCEPT ![now] = Signals]
  /\ reader' = "make raw"
  /\ UNCHANGED <<process, tty, now, result, pending, signals, once, closed,
                 goroutines, sent, caught>>

(* term.MakeRaw, and the goroutine starts. *)
MakeRaw ==
  /\ reader = "make raw"
  /\ \/ /\ tty' = "raw"
        /\ watcher' = [watcher EXCEPT ![now] = "waiting"]
        /\ reader' = "read"
        /\ UNCHANGED result
     \/ /\ result' = "error"
        /\ reader' = "stop"
        /\ UNCHANGED <<tty, watcher>>
  /\ UNCHANGED <<process, now, pending, relayed, signals, once, closed, taken, sent, caught>>

(* readRawSecret: a line, ^C, or a line too long or a failed read. *)
Read ==
  /\ reader = "read"
  /\ result' \in {"value", "interrupt", "error"}
  /\ reader' = "restore"
  /\ UNCHANGED <<process, tty, now, pending, relayed, signals, once, closed,
                 goroutines, sent, caught>>

(* restoreOnce.Do: who comes first restores the terminal, and who comes    *)
(* meanwhile waits.                                                        *)
SkipIfBegun(k) == once[k] \in {"busy", "done"}                 \* mutant
SkipIfDone(k) == once[k] = "done"

ReaderRestores ==
  /\ \/ /\ reader = "restore" /\ once[now] = "new"
        /\ once' = [once EXCEPT ![now] = "busy"]
        /\ reader' = "restoring"
        /\ UNCHANGED tty
     \/ /\ reader = "restoring"
        /\ tty' = "cooked"
        /\ once' = [once EXCEPT ![now] = "done"]
        /\ reader' = "stop"
     \/ /\ reader = "restore" /\ SkipIfDone(now)
        /\ reader' = "stop"
        /\ UNCHANGED <<tty, once>>
  /\ UNCHANGED <<process, now, result, pending, relayed, signals, closed,
                 goroutines, sent, caught>>

(* signal.Stop: from here on no signal reaches the channel. *)
Stop ==
  /\ reader = "stop"
  /\ relayed' = [relayed EXCEPT ![now] = {}]
  /\ reader' = "select"
  /\ UNCHANGED <<process, tty, now, result, pending, signals, once, closed,
                 goroutines, sent, caught>>

NeverFound(k) == FALSE                                         \* mutant
AlwaysFound(k) == TRUE                                         \* mutant
Found(k) == signals[k] # NoSignal

(* The select with a default, and close(done). *)
Select ==
  /\ reader = "select"
  /\ \/ /\ Found(now)
        /\ pending' = signals[now]
        /\ signals' = [signals EXCEPT ![now] = NoSignal]
        /\ reader' = "terminate"
        /\ UNCHANGED closed
     \/ /\ ~Found(now)
        /\ closed' = closed \cup {now}
        /\ IF result = "interrupt"
           THEN pending' = Interrupt /\ reader' = "terminate"
           ELSE reader' = "returned" /\ UNCHANGED pending
        /\ UNCHANGED signals
  /\ UNCHANGED <<process, tty, now, result, relayed, once, goroutines, sent, caught>>

(* Login: the request after a value; the next prompt, or the end.          *)
Proceed ==
  /\ reader = "returned"
  /\ \/ /\ result = "value" /\ now < Prompts
        /\ now' = now + 1 /\ reader' = "start" /\ result' = "none"
        /\ UNCHANGED process
     \/ /\ process' = "ended"
        /\ UNCHANGED <<now, reader, result>>
  /\ UNCHANGED <<tty, pending, relayed, signals, once, closed, goroutines, sent, caught>>

Unrelay(s) == relayed' = [k \in Prompt |-> relayed[k] \ {s}]

(* terminateAfterRestore in the reader: signal.Reset, then the signal.     *)
ReaderTerminates ==
  /\ \/ /\ reader = "terminate"
        /\ Unrelay(pending)
        /\ reader' = "raise"
        /\ UNCHANGED process
     \/ /\ reader = "raise"
        /\ process' = "ended"
        /\ UNCHANGED <<relayed, reader>>
  /\ UNCHANGED <<tty, now, result, pending, signals, once, closed, goroutines, sent, caught>>

-----------------------------------------------------------------------------
(* The goroutine of prompt k: its select. *)
Watch(k) ==
  /\ watcher[k] = "waiting"
  /\ \/ /\ signals[k] # NoSignal
        /\ taken' = [taken EXCEPT ![k] = signals[k]]
        /\ signals' = [signals EXCEPT ![k] = NoSignal]
        /\ watcher' = [watcher EXCEPT ![k] = "restore"]
     \/ /\ k \in closed
        /\ watcher' = [watcher EXCEPT ![k] = "gone"]
        /\ UNCHANGED <<taken, signals>>
  /\ UNCHANGED <<process, tty, main, relayed, once, closed, sent, caught>>

WatcherRestores(k) ==
  /\ \/ /\ watcher[k] = "restore" /\ once[k] = "new"
        /\ once' = [once EXCEPT ![k] = "busy"]
        /\ watcher' = [watcher EXCEPT ![k] = "restoring"]
        /\ UNCHANGED tty
     \/ /\ watcher[k] = "restoring"
        /\ tty' = "cooked"
        /\ once' = [once EXCEPT ![k] = "done"]
        /\ watcher' = [watcher EXCEPT ![k] = "terminate"]
     \/ /\ watcher[k] = "restore" /\ SkipIfDone(k)
        /\ watcher' = [watcher EXCEPT ![k] = "terminate"]
        /\ UNCHANGED <<tty, once>>
  /\ UNCHANGED <<process, main, relayed, signals, closed, taken, sent, caught>>

TerminateUnrestored(k) ==                                      \* mutant
  /\ watcher[k] = "restore"
  /\ process' = "ended"
  /\ UNCHANGED <<tty, main, relayed, signals, once, closed, goroutines, sent, caught>>
WatcherTerminates(k) ==
  /\ \/ /\ watcher[k] = "terminate"
        /\ Unrelay(taken[k])
        /\ watcher' = [watcher EXCEPT ![k] = "raise"]
        /\ UNCHANGED process
     \/ /\ watcher[k] = "raise"
        /\ process' = "ended"
        /\ UNCHANGED <<relayed, watcher>>
  /\ UNCHANGED <<tty, main, signals, once, closed, taken, sent, caught>>

(* Someone sends a signal: it goes to the channels it is relayed to, those *)
(* that are full dropping it, or else ends the process.                    *)
Signal(s) ==
  /\ sent < MaxSignals
  /\ sent' = sent + 1
  /\ IF \E k \in Prompt : s \in relayed[k]
     THEN /\ signals' = [k \in Prompt |->
                           IF s \in relayed[k] /\ signals[k] = NoSignal
                           THEN s ELSE signals[k]]
          /\ caught' = caught \cup {s}
          /\ UNCHANGED process
     ELSE /\ process' = "ended"
          /\ UNCHANGED <<signals, caught>>
  /\ UNCHANGED <<tty, main, relayed, once, closed, goroutines>>

(* A signal outside passwordSignals (SIGHUP, SIGQUIT, SIGKILL) is relayed  *)
(* nowhere and ends the process where it is.                               *)
Kill ==
  /\ process' = "killed"
  /\ UNCHANGED <<tty, main, relayed, signals, once, closed, goroutines, sent, caught>>

-----------------------------------------------------------------------------
ReaderStep ==
  Notify \/ MakeRaw \/ ReaderRestores \/ Stop \/ Select \/ Proceed \/ ReaderTerminates
WatcherStep(k) == Watch(k) \/ WatcherRestores(k) \/ WatcherTerminates(k)

Next ==
  /\ process = "running"
  /\ \/ ReaderStep \/ Read
     \/ \E k \in Prompt : WatcherStep(k)
     \/ \E s \in Signals : Signal(s)
     \/ Kill

(* The scheduler runs every goroutine that is not blocked.  Nobody has to  *)
(* type, or to send a signal.                                              *)
Fairness ==
  /\ WF_vars(process = "running" /\ ReaderStep)
  /\ \A k \in Prompt : WF_vars(process = "running" /\ WatcherStep(k))

Spec == Init /\ [][Next]_vars /\ Fairness
=============================================================================
