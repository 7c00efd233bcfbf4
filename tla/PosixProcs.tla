------------------------------ MODULE PosixProcs ------------------------------
(***************************************************************************)
(* The part of the operating system that the two shells rely on: child     *)
(* processes, process groups, signals sent to a group and the status       *)
(* changes that waitpid reports.  Nothing of it is in the repository; it   *)
(* is modelled from the calls yash and yashd make (fork, setpgid,          *)
(* kill(-pgid), waitpid(-pgid, WUNTRACED | WCONTINUED)).                   *)
(*                                                                         *)
(* A pid is reused once its process has been reaped and no process group   *)
(* carries its number any more, so a stale pgid can come to name somebody  *)
(* else's processes.                                                       *)
(***************************************************************************)
EXTENDS Integers, FiniteSets

CONSTANTS Pids,     \* process ids the kernel hands out
          Owners,   \* who forks processes (the sessions, or the shell)
          MayLeave  \* may a child leave its group (setpgid, setsid)?

ASSUME PosixAssumption == /\ Owners # {}
                          /\ MayLeave \in BOOLEAN
                          /\ IsFiniteSet(Pids)

VARIABLES
  st,     \* st[p]:    "free", "running", "stopped" or "zombie"
  pg,     \* pg[p]:    process group of p
  ev,     \* ev[p]:    stop or continue not yet reported by waitpid
  pend,   \* pend[p]:  signals sent to p and not yet delivered
  owner   \* owner[p]: who forked p (a history variable, never read by an action)

kernel == <<st, pg, ev, pend, owner>>

Signals == {"INT", "TSTP", "KILL"}

KernelTypeOK ==
  /\ st \in [Pids -> {"free", "running", "stopped", "zombie"}]
  /\ pg \in [Pids -> Pids]
  /\ ev \in [Pids -> {"none", "stopped", "continued"}]
  /\ pend \in [Pids -> SUBSET Signals]
  /\ owner \in [Pids -> Owners]

KernelInit ==
  /\ st = [p \in Pids |-> "free"]
  /\ pg = [p \in Pids |-> p]
  /\ ev = [p \in Pids |-> "none"]
  /\ pend = [p \in Pids |-> {}]
  /\ owner = [p \in Pids |-> CHOOSE o \in Owners : TRUE]

Live(p) == st[p] \in {"running", "stopped"}

(* Unreaped members of group g, zombies included. *)
Members(g) == {p \in Pids : st[p] # "free" /\ pg[p] = g}

(* A number in use as a pid or as a process group is not handed out. *)
FreePids == {p \in Pids : st[p] = "free" /\ Members(p) = {}}

(* Members of g with a status change for waitpid(-g, WUNTRACED | WCONTINUED). *)
Reportable(g) == {p \in Members(g) : st[p] = "zombie" \/ ev[p] # "none"}

-----------------------------------------------------------------------------
(* fork and setpgid, by both parent and child: every p in ps starts in     *)
(* group g on behalf of o, with the signals sigs already sent to it.       *)
Fork(ps, g, o, sigs) ==
  /\ st' = [p \in Pids |-> IF p \in ps THEN "running" ELSE st[p]]
  /\ pg' = [p \in Pids |-> IF p \in ps THEN g ELSE pg[p]]
  /\ owner' = [p \in Pids |-> IF p \in ps THEN o ELSE owner[p]]
  /\ pend' = [p \in Pids |-> IF p \in ps THEN sigs ELSE pend[p]]
  /\ UNCHANGED ev

(* kill(-g, sig) for a signal whose effect waits for delivery. *)
KillGroup(g, sig) ==
  /\ pend' = [p \in Pids |-> IF p \in Members(g) /\ Live(p)
                             THEN pend[p] \cup {sig} ELSE pend[p]]
  /\ UNCHANGED <<st, pg, ev, owner>>

(* kill(-g, SIGCONT): resumes at once and discards stops still pending.    *)
ContGroup(g) ==
  /\ st' = [p \in Pids |-> IF p \in Members(g) /\ st[p] = "stopped"
                           THEN "running" ELSE st[p]]
  /\ ev' = [p \in Pids |-> IF p \in Members(g) /\ st[p] = "stopped"
                           THEN "continued" ELSE ev[p]]
  /\ pend' = [p \in Pids |-> IF p \in Members(g)
                             THEN pend[p] \ {"TSTP"} ELSE pend[p]]
  /\ UNCHANGED <<pg, owner>>

(* waitpid collects a zombie: the pid may be handed out again. *)
Reap(p) ==
  /\ st' = [st EXCEPT ![p] = "free"]
  /\ pg' = [pg EXCEPT ![p] = p]
  /\ UNCHANGED <<ev, pend, owner>>

(* waitpid reports that p stopped or was continued. *)
Report(p) ==
  /\ ev' = [ev EXCEPT ![p] = "none"]
  /\ UNCHANGED <<st, pg, pend, owner>>

-----------------------------------------------------------------------------
(* What the processes themselves do.                                       *)

Die(p) ==
  /\ st' = [st EXCEPT ![p] = "zombie"]
  /\ ev' = [ev EXCEPT ![p] = "none"]
  /\ pend' = [pend EXCEPT ![p] = {}]
  /\ UNCHANGED <<pg, owner>>

Stop(p) ==
  /\ st' = [st EXCEPT ![p] = "stopped"]
  /\ ev' = [ev EXCEPT ![p] = "stopped"]
  /\ pend' = [pend EXCEPT ![p] = @ \ {"TSTP"}]
  /\ UNCHANGED <<pg, owner>>

(* SIGKILL reaches running and stopped processes alike. *)
DeliverKill(p) == Live(p) /\ "KILL" \in pend[p] /\ Die(p)

(* The default action of SIGINT and SIGTSTP. *)
DeliverInt(p) == st[p] = "running" /\ "INT" \in pend[p] /\ Die(p)
DeliverTstp(p) == st[p] = "running" /\ "TSTP" \in pend[p] /\ Stop(p)

(* The program catches or ignores it. *)
Ignore(p) ==
  /\ st[p] = "running"
  /\ \E sig \in pend[p] \ {"KILL"} : pend' = [pend EXCEPT ![p] = @ \ {sig}]
  /\ UNCHANGED <<st, pg, ev, owner>>

(* The program ends on its own, or a failed execvp or redirection does. *)
Exit(p) == st[p] = "running" /\ Die(p)

(* One process is stopped on its own: it raises SIGSTOP, or somebody else does. *)
StopAlone(p) == st[p] = "running" /\ Stop(p)

(* A process that is not its group's leader moves to a group of its own. *)
LeaveGroup(p) ==
  /\ MayLeave
  /\ st[p] = "running"
  /\ pg[p] # p
  /\ pg' = [pg EXCEPT ![p] = p]
  /\ UNCHANGED <<st, ev, pend, owner>>

ProcessStep(p) ==
  \/ DeliverKill(p)
  \/ DeliverInt(p)
  \/ DeliverTstp(p)
  \/ Ignore(p)
  \/ Exit(p)
  \/ StopAlone(p)
  \/ LeaveGroup(p)
===============================================================================
