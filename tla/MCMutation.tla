------------------------------ MODULE MCMutation ------------------------------
(* Model checking the mutating commands: the command lines of each run. *)
EXTENDS MutationProps, TLC

Lines(commands) == {c \in CommandLine : c.command \in commands /\ Sensible(c)}
AllLines == Lines(Commands)
InviteLines == Lines({"guests.invite"})
(* Two requests that depend on the same cohosts, requests of two kinds on  *)
(* one event, and an update that takes two requests.                       *)
RivalLines ==
  {c \in AllLines : ~c.dry /\ c.command \in OfContact}
    \cup {c \in AllLines : c.command = "events.create"}
    \cup {c \in AllLines : ~c.dry /\ c.timed /\ c.poster}

Symmetry == Permutations(Proc)
=============================================================================
