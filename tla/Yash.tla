--------------------------------- MODULE Yash ---------------------------------
(***************************************************************************)
(* yash, the shell of Project 1: the read-eval loop (main.c), the job table *)
(* and every waitpid (jobs.c), process creation (exec.c), the builtins      *)
(* (builtins.c) and the hand-over of the terminal (sig.c), with the user    *)
(* who types lines, Ctrl-c and Ctrl-z, and the processes of the jobs.       *)
(*                                                                         *)
(* One action is one system call whose result another actor can change,     *)
(* with the code around it.                                                 *)
(***************************************************************************)
EXTENDS PosixProcs, YashParse

CONSTANTS Shell,     \* shell_pgid
          MaxJobs,   \* YASH_MAX_JOBS
          MaxJid,    \* bound: job numbers
          Reuse      \* may a pid that a job still records be handed out again?

ASSUME YashAssumption == /\ MaxJobs \in Nat /\ MaxJid \in Nat
                         /\ Reuse \in BOOLEAN
                         /\ Shell \notin Pids
                         /\ Owners = {"table", "refused"}

VARIABLES
  pc,      \* where the shell is
  jobs,    \* job_list, oldest first
  cur,     \* index of the job that do_fg or exec_job works on, 0 for none
  tty      \* foreground process group of the terminal

shell == <<pc, jobs, cur, tty>>
vars == <<kernel, shell>>

(* job_t; pids are the cmds[].pid, which stay when the process is gone. *)
Job == [jid : Nat \ {0}, pgid : Pids, state : {"RUNNING", "STOPPED", "DONE"},
        background : BOOLEAN, nlive : Nat, pids : SUBSET Pids]

TypeOK ==
  /\ KernelTypeOK
  /\ pc \in {"reap", "read", "give", "resume", "wait", "take", "kill", "exited"}
  /\ jobs \in Seq(Job)
  /\ cur \in 0..Len(jobs)
  /\ tty \in Pids \cup {Shell}

(* main after sig_init_shell and jobs_init. *)
Init ==
  /\ KernelInit
  /\ pc = "reap"
  /\ jobs = << >>
  /\ cur = 0
  /\ tty = Shell

-----------------------------------------------------------------------------
(* jobs.c: the job table. *)

NextJid == IF jobs = << >> THEN 1 ELSE Last(jobs).jid + 1
jobs_add(job) == Append(jobs, [job EXCEPT !.jid = NextJid])

jobs_remove(i) == RemoveAt(jobs, i)

Newest(states) ==
  LET hits == {i \in DOMAIN jobs : jobs[i].state \in states}
  IN  IF hits = {} THEN 0 ELSE Max(hits)

jobs_current == Newest({"RUNNING", "STOPPED"})
jobs_recent_stopped == Newest({"STOPPED"})

(* The oldest job that records p, or 0. *)
jobs_find_pid(p) ==
  LET hits == {i \in DOMAIN jobs : p \in jobs[i].pids}
  IN  IF hits = {} THEN 0 ELSE Min(hits)

(* jobs_reap, first loop: waitpid(-1, WNOHANG | WUNTRACED | WCONTINUED) has *)
(* news of p.                                                               *)
Reported(p) ==
  LET i == jobs_find_pid(p)
  IN  \/ /\ st[p] = "zombie"
         /\ Reap(p)
         /\ jobs' = IF i = 0 THEN jobs
                    ELSE [jobs EXCEPT ![i].nlive = @ - 1,
                           ![i].state = IF jobs[i].nlive = 1 THEN "DONE" ELSE @]
      \/ /\ ev[p] # "none"
         /\ Report(p)
         /\ jobs' = IF i = 0 THEN jobs
                    ELSE [jobs EXCEPT ![i].state =
                           IF ev[p] = "stopped" THEN "STOPPED" ELSE "RUNNING"]

ReapPoll ==
  /\ pc = "reap"
  /\ \E p \in Pids : st[p] # "free" /\ Reported(p)
  /\ UNCHANGED <<pc, cur, tty>>

(* waitpid returned 0; the second loop reports and drops the Done jobs. *)
ReapEnd ==
  /\ pc = "reap"
  /\ UNION {Reportable(g) : g \in Pids} = {}
  /\ jobs' = SelectSeq(jobs, LAMBDA job : job.state # "DONE")
  /\ pc' = "read"
  /\ UNCHANGED <<kernel, cur, tty>>

-----------------------------------------------------------------------------
(* main: one line.  A blank or malformed line, the jobs builtin and a read  *)
(* interrupted by a signal change nothing.                                  *)
Reprompt ==
  /\ pc = "read"
  /\ pc' = "reap"
  /\ UNCHANGED <<kernel, jobs, cur, tty>>

(* builtin_try: a builtin is a line of one command with its name. *)
Name(job) == IF Len(job.cmds) = 1 THEN job.cmds[1].argv[1] ELSE "none"
Builtins == {Name(job) : job \in Parsed} \cap {"fg", "bg"}

(* do_fg: the terminal first, ... *)
do_fg ==
  /\ pc = "read"
  /\ "fg" \in Builtins
  /\ jobs_current # 0
  /\ cur' = jobs_current
  /\ jobs' = [jobs EXCEPT ![jobs_current].background = FALSE]
  /\ tty' = jobs[jobs_current].pgid
  /\ pc' = "resume"
  /\ UNCHANGED kernel

(* ... then SIGCONT, to a job that is known to be stopped. *)
Resume ==
  /\ pc = "resume"
  /\ IF jobs[cur].state = "STOPPED" THEN ContGroup(jobs[cur].pgid) ELSE UNCHANGED kernel
  /\ jobs' = [jobs EXCEPT ![cur].state = "RUNNING"]
  /\ pc' = "wait"
  /\ UNCHANGED <<cur, tty>>

do_bg ==
  LET i == jobs_recent_stopped
  IN  /\ pc = "read"
      /\ "bg" \in Builtins
      /\ i # 0
      /\ ContGroup(jobs[i].pgid)
      /\ jobs' = [jobs EXCEPT ![i].state = "RUNNING", ![i].background = TRUE]
      /\ pc' = "reap"
      /\ UNCHANGED <<cur, tty>>

(* exec_job.  A fork may fail: a pipeline then has one process only, and    *)
(* without any the line changes nothing.  A job that jobs_add refuses (the  *)
(* table is full, or malloc fails) goes on running; the shell forgets it.   *)
Launchable == {p \in FreePids : Reuse \/ jobs_find_pid(p) = 0}
Commanded == {[n |-> Len(job.cmds), background |-> job.background] :
                job \in {j \in Parsed : Name(j) \notin {"fg", "bg", "jobs"}}}

exec_job(ps, g, background) ==
  \/ /\ Fork(ps, g, "refused", {})
     /\ pc' = "reap"
     /\ UNCHANGED <<jobs, cur>>
  \/ /\ Len(jobs) < MaxJobs
     /\ NextJid <= MaxJid
     /\ Fork(ps, g, "table", {})
     /\ jobs' = jobs_add([jid |-> 0, pgid |-> g, state |-> "RUNNING",
          background |-> background, nlive |-> Cardinality(ps), pids |-> ps])
     /\ pc' = IF background THEN "reap" ELSE "give"
     /\ cur' = IF background THEN 0 ELSE Len(jobs')

Launch ==
  /\ pc = "read"
  /\ \E job \in Commanded, g \in Launchable :
       \E ps \in {{g}} \cup {{g, p} : p \in Launchable \ {g}} :
         Cardinality(ps) <= job.n /\ exec_job(ps, g, job.background)
  /\ UNCHANGED tty

(* sig_give_terminal(job->pgid). *)
Give ==
  /\ pc = "give"
  /\ tty' = jobs[cur].pgid
  /\ pc' = "wait"
  /\ UNCHANGED <<kernel, jobs, cur>>

-----------------------------------------------------------------------------
(* jobs_wait_fg: waitpid(-pgid, WUNTRACED), until no process is left or one *)
(* has stopped.  Faulty variant: it waits for any child.                    *)
WaitExitAny ==
  /\ pc = "wait"
  /\ jobs[cur].nlive > 0
  /\ \E p \in Pids : st[p] = "zombie" /\ Reap(p)
  /\ jobs' = [jobs EXCEPT ![cur].nlive = @ - 1]
  /\ UNCHANGED <<pc, cur, tty>>

WaitExit ==
  /\ pc = "wait"
  /\ jobs[cur].nlive > 0
  /\ \E p \in Members(jobs[cur].pgid) : st[p] = "zombie" /\ Reap(p)
  /\ jobs' = [jobs EXCEPT ![cur].nlive = @ - 1]
  /\ UNCHANGED <<pc, cur, tty>>

WaitStop ==
  /\ pc = "wait"
  /\ jobs[cur].nlive > 0
  /\ \E p \in Members(jobs[cur].pgid) : ev[p] = "stopped" /\ Report(p)
  /\ jobs' = [jobs EXCEPT ![cur].state = "STOPPED"]
  /\ pc' = "take"
  /\ UNCHANGED <<cur, tty>>

WaitDone ==
  /\ pc = "wait"
  /\ jobs[cur].nlive = 0 \/ Members(jobs[cur].pgid) = {}
  /\ jobs' = [jobs EXCEPT ![cur].state = "DONE"]
  /\ pc' = "take"
  /\ UNCHANGED <<kernel, cur, tty>>

(* sig_give_terminal(shell_pgid), and a finished job leaves the table.      *)
(* Faulty variant: a job that stopped keeps the terminal.                   *)
TakeWhenDone ==
  /\ pc = "take"
  /\ tty' = IF jobs[cur].state = "DONE" THEN Shell ELSE tty
  /\ jobs' = IF jobs[cur].state = "DONE" THEN jobs_remove(cur) ELSE jobs
  /\ cur' = 0
  /\ pc' = "reap"
  /\ UNCHANGED kernel

Take ==
  /\ pc = "take"
  /\ tty' = Shell
  /\ jobs' = IF jobs[cur].state = "DONE" THEN jobs_remove(cur) ELSE jobs
  /\ cur' = 0
  /\ pc' = "reap"
  /\ UNCHANGED kernel

-----------------------------------------------------------------------------
(* Ctrl-d at the prompt: jobs_kill_all, then the shell is gone. *)
Eof ==
  /\ pc = "read"
  /\ pc' = "kill"
  /\ UNCHANGED <<kernel, jobs, cur, tty>>

(* Faulty variant: kill(pgid) in place of kill(-pgid). *)
kill_leaders ==
  /\ pc = "kill"
  /\ IF jobs = << >>
     THEN pc' = "exited" /\ UNCHANGED <<kernel, jobs>>
     ELSE /\ pend' = [pend EXCEPT ![Head(jobs).pgid] = @ \cup {"KILL"}]
          /\ jobs' = Tail(jobs)
          /\ UNCHANGED <<st, pg, ev, owner, pc>>
  /\ UNCHANGED <<cur, tty>>

jobs_kill_all ==
  /\ pc = "kill"
  /\ IF jobs = << >>
     THEN pc' = "exited" /\ UNCHANGED <<kernel, jobs>>
     ELSE KillGroup(Head(jobs).pgid, "KILL") /\ jobs' = Tail(jobs) /\ UNCHANGED pc
  /\ UNCHANGED <<cur, tty>>

(* The terminal sends SIGINT or SIGTSTP to its foreground group; the shell  *)
(* has handlers that do nothing.                                            *)
Key(sig) ==
  /\ pc # "exited"
  /\ tty # Shell
  /\ KillGroup(tty, sig)
  /\ UNCHANGED shell

ShellStep ==
  \/ ReapPoll \/ ReapEnd \/ Give \/ Resume
  \/ WaitExit \/ WaitStop \/ WaitDone \/ Take \/ jobs_kill_all

User ==
  \/ Reprompt \/ do_fg \/ do_bg \/ Launch \/ Eof
  \/ Key("INT") \/ Key("TSTP")

Next == ShellStep \/ User \/ (\E p \in Pids : ProcessStep(p) /\ UNCHANGED shell)

Spec == Init /\ [][Next]_vars

(* The shell runs, and SIGKILL is delivered.  Nothing is assumed about the  *)
(* user or the programs.                                                    *)
FairSpec ==
  /\ Spec
  /\ WF_vars(ShellStep)
  /\ \A p \in Pids : WF_vars(DeliverKill(p) /\ UNCHANGED shell)

-----------------------------------------------------------------------------
(* Whatever is typed at the prompt, parse_line accepts exactly the lines of *)
(* the grammar parse.h lays down that are not too long (parse.c:70), and    *)
(* finds their commands, files and &.                                       *)
ParserOK == pc = "read" => ParserAgrees

(* nlive counts the unreaped processes of a job whoever collected the       *)
(* others (jobs_reap or jobs_wait_fg), so "Done" is said of a job when its  *)
(* last process is gone and not before; and no process of the table's jobs  *)
(* is lost from it while the shell runs.                                    *)
Accounting ==
  /\ TypeOK
  /\ pc \notin {"kill", "exited"} =>
    /\ \A i \in DOMAIN jobs : jobs[i].nlive = Cardinality(Members(jobs[i].pgid))
    /\ \A i \in DOMAIN jobs : jobs[i].state = "DONE" => jobs[i].nlive = 0 /\ pc # "read"
    /\ \A p \in Pids : st[p] # "free" /\ owner[p] = "table" =>
         \E i \in DOMAIN jobs : jobs[i].pgid = pg[p]

(* Ctrl-c and Ctrl-z reach the processes of the job the shell is waiting    *)
(* for and no other: not a background job, and not one stopped before       *)
(* (exec.c:125-127, builtins.c:35-42).                                      *)
KeysReachForeground ==
  [][\A p \in Pids : (pend'[p] \ pend[p]) \cap {"INT", "TSTP"} # {} =>
       cur # 0 /\ pg[p] = jobs[cur].pgid]_vars

(* When the shell has exited, the processes of the jobs it held in its     *)
(* table die (jobs_kill_all): the later processes of a pipeline as well as  *)
(* the leader, stopped ones, and those that ignore every other signal.      *)
(* Nothing is said of a job that jobs_add refused.                          *)
JobsDeadOnExit ==
  (pc = "exited") ~> (\A p \in Pids : owner[p] = "table" => ~Live(p))
===============================================================================
