------------------------- MODULE TerminalSecretProps -------------------------
(***************************************************************************)
(* What the private prompts promise to the terminal and to a signal.       *)
(***************************************************************************)
EXTENDS TerminalSecret

(* Every variable stays in its domain, and what is raised is a signal. *)
TypeOK ==
  /\ process \in {"running", "ended", "killed"} /\ tty \in {"cooked", "raw"}
  /\ now \in Prompt
  /\ reader \in {"start", "make raw", "read", "restore", "restoring", "stop", "select",
                 "terminate", "raise", "returned"}
  /\ result \in {"none", "value", "interrupt", "error"}
  /\ pending \in Signals \cup {NoSignal}
  /\ relayed \in [Prompt -> SUBSET Signals]
  /\ signals \in [Prompt -> Signals \cup {NoSignal}]
  /\ once \in [Prompt -> {"new", "busy", "done"}]
  /\ closed \subseteq Prompt
  /\ watcher \in [Prompt -> {"none", "waiting", "restore", "restoring", "terminate",
                             "raise", "gone"}]
  /\ taken \in [Prompt -> Signals \cup {NoSignal}]
  /\ sent \in 0 .. MaxSignals /\ caught \subseteq Signals
  /\ reader \in {"terminate", "raise"} => pending # NoSignal
  /\ \A k \in Prompt :
       watcher[k] \in {"restore", "restoring", "terminate", "raise"} => taken[k] # NoSignal

(* The goroutine of an earlier prompt is about to raise the signal that it *)
(* took while the reader finished: login went on without knowing.          *)
Late == \E k \in Prompt : k < now /\ watcher[k] = "raise"

(* A process that has ended leaves a raw terminal behind only if a prompt  *)
(* was open, and only on two paths: a signal outside passwordSignals,      *)
(* which the code does not catch, or a goroutine of an earlier prompt that *)
(* is late and gave its signal its default action back.  On every other    *)
(* path out of a prompt the terminal has been restored.                    *)
Reading == reader \in {"read", "restore", "restoring"}
TerminalIsRestored ==
  process # "running" /\ tty = "raw" => Reading /\ (process = "killed" \/ Late)

(* A secret is never echoed while it is typed: the terminal is raw as long *)
(* as the reader reads, unless this prompt's goroutine is ending the       *)
(* process; no goroutine of an earlier prompt restores it meanwhile.       *)
NoEcho ==
  reader = "read" /\ tty = "cooked" =>
    watcher[now] \in {"terminate", "raise"}

(* A signal that reached a channel is never swallowed: whoever takes it,   *)
(* the process ends, even while nobody types.                              *)
CaughtEnds == caught # {} ~> process # "running"
=============================================================================
