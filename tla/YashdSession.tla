----------------------------- MODULE YashdSession -----------------------------
(***************************************************************************)
(* The session threads of yashd: the read-eval loop (session.c), the       *)
(* per-session job table and every waitpid call (jobs.c), process creation *)
(* (exec.c) and the builtins (builtins.c).  Each thread owns its session;  *)
(* threads meet only in the kernel, whose pids they all share.             *)
(*                                                                         *)
(* One action is one system call that can block or whose result another    *)
(* actor can change, with the code around it.  What a client sends is      *)
(* arbitrary, so a line is chosen when it is read.                         *)
(***************************************************************************)
EXTENDS PosixProcs, Sequences

CONSTANTS Sessions,   \* session threads
          MaxJobs,    \* YASH_MAX_JOBS
          SlowReader, \* may a job leave more input unread than its pipe holds?
          MaxLines    \* bound: lines one client sends

ASSUME SessionAssumption == /\ MaxJobs \in Nat
                            /\ SlowReader \in BOOLEAN
                            /\ MaxLines \in Nat
                            /\ Owners = Sessions

VARIABLES
  pc,      \* pc[s]:   where the thread of s is
  jobs,    \* jobs[s]: job_list, oldest first
  cur,     \* cur[s]:  loop index over jobs[s]
  fg,      \* fg[s]:   index of fg_job in jobs[s], 0 for NULL
  quit,    \* quit[s]: s->quit
  conn,    \* conn[s]: has the client still its end of the socket open?
  left     \* left[s]: lines the client may still send

sess == <<pc, jobs, cur, fg, quit, conn, left>>
vars == <<kernel, sess>>

(* job_t.  clear_pid keeps cmds[].pid for jobs_find_pid, which nobody calls. *)
Job == [jid : Nat \ {0}, pgid : Pids, state : {"RUNNING", "STOPPED", "DONE"},
        background : BOOLEAN, nlive : Nat, infd : BOOLEAN]

PCs == {"accept", "reap", "sweep", "prompt", "read", "pump", "write", "poll",
        "block", "kill", "collect", "gone"}

TypeOK ==
  /\ KernelTypeOK
  /\ pc \in [Sessions -> PCs]
  /\ jobs \in [Sessions -> Seq(Job)]
  /\ cur \in [Sessions -> Nat]
  /\ fg \in [Sessions -> Nat]
  /\ quit \in [Sessions -> BOOLEAN]
  /\ conn \in [Sessions -> BOOLEAN]
  /\ left \in [Sessions -> Nat]

Init ==
  /\ KernelInit
  /\ pc = [s \in Sessions |-> "accept"]
  /\ jobs = [s \in Sessions |-> << >>]
  /\ cur = [s \in Sessions |-> 1]
  /\ fg = [s \in Sessions |-> 0]
  /\ quit = [s \in Sessions |-> FALSE]
  /\ conn = [s \in Sessions |-> TRUE]
  /\ left = [s \in Sessions |-> MaxLines]

-----------------------------------------------------------------------------
(* jobs.c: the job table.                                                  *)

Without(q, i) == SubSeq(q, 1, i - 1) \o SubSeq(q, i + 1, Len(q))

jobs_add(q, job) ==
  Append(q, [job EXCEPT !.jid = IF q = << >> THEN 1 ELSE q[Len(q)].jid + 1])

jobs_remove(s, i) == jobs' = [jobs EXCEPT ![s] = Without(@, i)]

Newest(q, states) ==
  LET hits == {i \in DOMAIN q : q[i].state \in states}
  IN  IF hits = {} THEN 0 ELSE CHOOSE i \in hits : \A k \in hits : k <= i

jobs_current(q) == Newest(q, {"RUNNING", "STOPPED"})
jobs_recent_stopped(q) == Newest(q, {"STOPPED"})

(* A write to the socket fails with EPIPE only when the client is gone, but *)
(* bytes the kernel already accepted do not fail; session_write then sets   *)
(* s->quit.                                                                 *)
WriteFails(s) == {FALSE} \cup {~conn[s]}

(* The children waitpid(-job->pgid, WUNTRACED | WCONTINUED) has news of.    *)
(* Faulty variant: wait for any child, as Project 1 did.                    *)
NewsAnyChild(job) == UNION {Reportable(g) : g \in Pids}
News(job) == Reportable(job.pgid)

(* What waitpid can return for a child p of job i, and what poll_job makes  *)
(* of it: an exit is for the caller to count, a stop or a continuation is   *)
(* recorded.                                                                *)
Exited(p) == st[p] = "zombie" /\ Reap(p)

Stopped(s, i, p) ==
  /\ st[p] # "zombie"
  /\ ev[p] = "stopped"
  /\ Report(p)
  /\ jobs' = [jobs EXCEPT ![s][i].state = "STOPPED"]

Continued(s, i, p) ==
  /\ st[p] # "zombie"
  /\ ev[p] = "continued"
  /\ Report(p)
  /\ jobs' = [jobs EXCEPT ![s][i].state = "RUNNING"]

-----------------------------------------------------------------------------
(* server_run accepts a client and starts its thread on session_main. *)
Accept(s) ==
  /\ pc[s] = "accept"
  /\ pc' = [pc EXCEPT ![s] = "reap"]
  /\ UNCHANGED <<kernel, jobs, cur, fg, quit, conn, left>>

(* jobs_reap, first loop: one waitpid(-pgid, WNOHANG) of job cur[s]. *)
ReapPoll(s) ==
  LET i == cur[s]
      job == jobs[s][i]
  IN  /\ pc[s] = "reap"
      /\ i <= Len(jobs[s])
      /\ \/ \E p \in News(job) :
              \/ /\ Exited(p)
                 /\ jobs' = [jobs EXCEPT ![s][i].nlive = @ - 1,
                      ![s][i].state = IF job.nlive = 1 THEN "DONE" ELSE @]
                 /\ cur' = [cur EXCEPT ![s] = IF job.nlive = 1 THEN @ + 1 ELSE @]
              \/ Stopped(s, i, p) /\ cur' = [cur EXCEPT ![s] = @ + 1]
              \/ Continued(s, i, p) /\ UNCHANGED cur
         \/ /\ News(job) = {}
            /\ Members(job.pgid) # {}
            /\ cur' = [cur EXCEPT ![s] = @ + 1]
            /\ UNCHANGED <<kernel, jobs>>
         \/ /\ Members(job.pgid) = {}     \* ECHILD
            /\ jobs' = [jobs EXCEPT ![s][i].nlive = 0, ![s][i].state = "DONE"]
            /\ cur' = [cur EXCEPT ![s] = @ + 1]
            /\ UNCHANGED kernel
      /\ UNCHANGED <<pc, fg, quit, conn, left>>

ReapEnd(s) ==
  /\ pc[s] = "reap"
  /\ cur[s] > Len(jobs[s])
  /\ pc' = [pc EXCEPT ![s] = "sweep"]
  /\ cur' = [cur EXCEPT ![s] = 1]
  /\ UNCHANGED <<kernel, jobs, fg, quit, conn, left>>

(* jobs_reap, second loop: report a Done job to the client and drop it. *)
Sweep(s) ==
  /\ pc[s] = "sweep"
  /\ cur[s] <= Len(jobs[s])
  /\ IF jobs[s][cur[s]].state = "DONE"
     THEN /\ jobs_remove(s, cur[s])
          /\ \E fails \in WriteFails(s) : quit' = [quit EXCEPT ![s] = @ \/ fails]
          /\ UNCHANGED cur
     ELSE cur' = [cur EXCEPT ![s] = @ + 1] /\ UNCHANGED <<jobs, quit>>
  /\ UNCHANGED <<kernel, pc, fg, conn, left>>

(* session_prompt; a failed write ends the session. *)
Prompt(s) ==
  /\ pc[s] = "sweep"
  /\ cur[s] > Len(jobs[s])
  /\ \E fails \in WriteFails(s) :
       /\ pc' = [pc EXCEPT ![s] = IF fails THEN "kill" ELSE "read"]
       /\ quit' = [quit EXCEPT ![s] = @ \/ fails]
  /\ cur' = [cur EXCEPT ![s] = 1]
  /\ UNCHANGED <<kernel, jobs, fg, conn, left>>

(* session_readsocket returns 0 or -1: the peer closed. *)
ReadEof(s) ==
  /\ pc[s] = "read"
  /\ ~conn[s]
  /\ left[s] = 0
  /\ pc' = [pc EXCEPT ![s] = "kill"]
  /\ UNCHANGED <<kernel, jobs, cur, fg, quit, conn, left>>

(* A complete line was read at the prompt and is dispatched. *)
Line(s) ==
  /\ pc[s] = "read"
  /\ left[s] > 0
  /\ left' = [left EXCEPT ![s] = @ - 1]
  /\ UNCHANGED conn

(* Where session_main goes once dispatch has returned. *)
Return(s, q) ==
  /\ quit' = [quit EXCEPT ![s] = q]
  /\ pc' = [pc EXCEPT ![s] = IF q THEN "kill" ELSE "reap"]
  /\ cur' = [cur EXCEPT ![s] = 1]

(* The head of the loop of jobs_wait_fg. *)
WaitFg(s, q) == pc' = [pc EXCEPT ![s] = IF q THEN "block" ELSE "pump"]

(* Malformed commands, text and CTL c / CTL z at the prompt change nothing. *)
CmdNothing(s) ==
  /\ Line(s)
  /\ Return(s, quit[s])
  /\ UNCHANGED <<kernel, jobs, fg>>

(* The jobs builtin prints the table. *)
CmdJobs(s) ==
  /\ Line(s)
  /\ \E fails \in WriteFails(s) : Return(s, quit[s] \/ (fails /\ jobs[s] # << >>))
  /\ UNCHANGED <<kernel, jobs, fg>>

(* CMD quit, and CTL d with no foreground job. *)
CmdQuit(s) ==
  /\ Line(s)
  /\ Return(s, TRUE)
  /\ UNCHANGED <<kernel, jobs, fg>>

(* do_fg. *)
CmdFg(s) ==
  LET i == jobs_current(jobs[s])
      job == jobs[s][i]
  IN  /\ Line(s)
      /\ IF i = 0
         THEN Return(s, quit[s]) /\ UNCHANGED <<kernel, jobs, fg>>
         ELSE /\ \E fails \in WriteFails(s) :
                   /\ quit' = [quit EXCEPT ![s] = @ \/ fails]
                   /\ WaitFg(s, quit[s] \/ fails)
              /\ IF job.state = "STOPPED"
                 THEN ContGroup(job.pgid)
                 ELSE UNCHANGED kernel
              /\ jobs' = [jobs EXCEPT ![s][i].background = FALSE,
                                      ![s][i].state = "RUNNING"]
              /\ fg' = [fg EXCEPT ![s] = i]
              /\ UNCHANGED cur

(* do_bg. *)
CmdBg(s) ==
  LET i == jobs_recent_stopped(jobs[s])
  IN  /\ Line(s)
      /\ UNCHANGED fg
      /\ IF i = 0
         THEN Return(s, quit[s]) /\ UNCHANGED <<kernel, jobs>>
         ELSE /\ ContGroup(jobs[s][i].pgid)
              /\ jobs' = [jobs EXCEPT ![s][i].background = TRUE,
                                      ![s][i].state = "RUNNING"]
              /\ \E fails \in WriteFails(s) : Return(s, quit[s] \/ fails)

(* The signals sent to the group of a job that jobs_add refused. *)
(* Faulty variant: none. *)
RefuseNoKill == {}
RefuseKill == {"KILL"}

(* exec_job.  Any pipe or fork may fail: a pipeline then has one process   *)
(* only, and without any process nothing is left behind.  A full table, or *)
(* a failed malloc, refuses the job: its group is killed.                  *)
exec_job(s, ncmds, background) ==
  \/ /\ Line(s)
     /\ Return(s, quit[s])
     /\ UNCHANGED <<kernel, jobs, fg>>
  \/ \E g \in FreePids : \E ps \in {{g}} \cup {{g, p} : p \in FreePids \ {g}} :
       /\ Cardinality(ps) <= ncmds
       /\ Line(s)
       /\ \E refused \in {Len(jobs[s]) >= MaxJobs, TRUE} :
          IF refused
          THEN /\ Fork(ps, g, s, RefuseKill)
               /\ Return(s, quit[s])
               /\ UNCHANGED <<jobs, fg>>
          ELSE /\ Fork(ps, g, s, {})
               /\ jobs' = [jobs EXCEPT ![s] = jobs_add(@,
                    [jid |-> 0, pgid |-> g, state |-> "RUNNING",
                     background |-> background, nlive |-> Cardinality(ps),
                     infd |-> ~background])]
               /\ IF background
                  THEN Return(s, quit[s]) /\ UNCHANGED fg
                  ELSE /\ fg' = [fg EXCEPT ![s] = Len(jobs[s]) + 1]
                       /\ WaitFg(s, quit[s])
                       /\ UNCHANGED <<cur, quit>>

(* | and & exclude each other, so only one command goes to the background. *)
CmdRun(s) ==
  \/ \E n \in 1..2 : exec_job(s, n, FALSE)
  \/ exec_job(s, 1, TRUE)

-----------------------------------------------------------------------------
(* jobs_wait_fg: session_pump, then poll_job, until the job ends or stops. *)

(* A line is taken from the buffer; more may have come in the same read. *)
PumpLine(s) ==
  /\ pc[s] = "pump"
  /\ left[s] > 0
  /\ left' = [left EXCEPT ![s] = @ - 1]
  /\ UNCHANGED <<cur, fg, conn>>

PumpOn(s) == \E next \in {"pump", "poll"} : pc' = [pc EXCEPT ![s] = next]

(* handle_ctl with CTL c or CTL z. *)
CtlSignal(s, sig) ==
  /\ PumpLine(s)
  /\ PumpOn(s)
  /\ KillGroup(jobs[s][fg[s]].pgid, sig)
  /\ UNCHANGED <<jobs, quit>>

(* handle_ctl with CTL d: EOF for the job, or the end of the session. *)
CtlEof(s) ==
  /\ PumpLine(s)
  /\ PumpOn(s)
  /\ IF jobs[s][fg[s]].infd
     THEN /\ jobs' = [jobs EXCEPT ![s][fg[s]].infd = FALSE]
          /\ UNCHANGED quit
     ELSE /\ quit' = [quit EXCEPT ![s] = TRUE]
          /\ UNCHANGED jobs
  /\ UNCHANGED kernel

(* handle_text: the write to the job's stdin succeeds, fails because nobody *)
(* reads it any more, or blocks because the pipe is full.                   *)
Text(s) ==
  /\ PumpLine(s)
  /\ \/ PumpOn(s) /\ UNCHANGED jobs
     \/ PumpOn(s) /\ jobs' = [jobs EXCEPT ![s][fg[s]].infd = FALSE]
     \/ /\ SlowReader
        /\ jobs[s][fg[s]].infd
        /\ pc' = [pc EXCEPT ![s] = "write"]
        /\ UNCHANGED jobs
  /\ UNCHANGED <<kernel, quit>>

(* A running process of the job reads, or closes, its stdin. *)
TextRead(s) ==
  /\ pc[s] = "write"
  /\ \E p \in Members(jobs[s][fg[s]].pgid) : st[p] = "running"
  /\ PumpOn(s)
  /\ jobs' \in {jobs, [jobs EXCEPT ![s][fg[s]].infd = FALSE]}
  /\ UNCHANGED <<kernel, cur, fg, quit, conn, left>>

(* The last possible reader is dead: EPIPE. *)
TextFails(s) ==
  /\ pc[s] = "write"
  /\ \A p \in Members(jobs[s][fg[s]].pgid) : ~Live(p)
  /\ PumpOn(s)
  /\ jobs' = [jobs EXCEPT ![s][fg[s]].infd = FALSE]
  /\ UNCHANGED <<kernel, cur, fg, quit, conn, left>>

(* select times out, or only part of a line has arrived. *)
PumpEnd(s) ==
  /\ pc[s] = "pump"
  /\ conn[s]
  /\ pc' = [pc EXCEPT ![s] = "poll"]
  /\ UNCHANGED <<kernel, jobs, cur, fg, quit, conn, left>>

(* The client vanished: the job is killed.  Faulty variant: it is not. *)
PumpEofNoKill(s) ==
  /\ pc[s] = "pump"
  /\ ~conn[s]
  /\ left[s] = 0
  /\ quit' = [quit EXCEPT ![s] = TRUE]
  /\ pc' = [pc EXCEPT ![s] = "poll"]
  /\ UNCHANGED <<kernel, jobs, cur, fg, conn, left>>

PumpEof(s) ==
  /\ pc[s] = "pump"
  /\ ~conn[s]
  /\ left[s] = 0
  /\ quit' = [quit EXCEPT ![s] = TRUE]
  /\ KillGroup(jobs[s][fg[s]].pgid, "KILL")
  /\ pc' = [pc EXCEPT ![s] = "poll"]
  /\ UNCHANGED <<jobs, cur, fg, conn, left>>

(* The job ended: jobs_wait_fg marks it Done and the caller removes it. *)
FgDone(s) ==
  /\ jobs_remove(s, fg[s])
  /\ fg' = [fg EXCEPT ![s] = 0]
  /\ Return(s, quit[s])

(* One waitpid of poll_job: with WNOHANG at "poll", blocking at "block". *)
PollFg(s) ==
  LET i == fg[s]
      job == jobs[s][i]
  IN  /\ pc[s] \in {"poll", "block"}
      /\ UNCHANGED <<conn, left>>
      /\ \/ \E p \in News(job) :
              \/ /\ Exited(p)
                 /\ IF job.nlive = 1
                    THEN FgDone(s)
                    ELSE /\ jobs' = [jobs EXCEPT ![s][i].nlive = @ - 1]
                         /\ UNCHANGED <<pc, cur, fg, quit>>
              \/ /\ Stopped(s, i, p)
                 /\ fg' = [fg EXCEPT ![s] = 0]
                 /\ Return(s, quit[s])
              \/ /\ Continued(s, i, p)
                 /\ UNCHANGED <<pc, cur, fg, quit>>
         \/ /\ pc[s] = "poll"
            /\ News(job) = {}
            /\ Members(job.pgid) # {}
            /\ WaitFg(s, quit[s])
            /\ UNCHANGED <<kernel, jobs, cur, fg, quit>>
         \/ /\ Members(job.pgid) = {}     \* ECHILD
            /\ FgDone(s)
            /\ UNCHANGED kernel

-----------------------------------------------------------------------------
(* session_destroy: jobs_kill_all, then the socket is closed.              *)

(* The signal of jobs_kill_all.  Faulty variant: one a program may ignore. *)
SoftSignal == "INT"
LastSignal == "KILL"

KillJob(s) ==
  /\ pc[s] = "kill"
  /\ cur[s] <= Len(jobs[s])
  /\ KillGroup(jobs[s][cur[s]].pgid, LastSignal)
  /\ jobs' = [jobs EXCEPT ![s][cur[s]].infd = FALSE]
  /\ pc' = [pc EXCEPT ![s] = "collect"]
  /\ UNCHANGED <<cur, fg, quit, conn, left>>

(* One blocking waitpid(-pgid, 0) of jobs_kill_all. *)
Collect(s) ==
  LET i == cur[s]
      job == jobs[s][i]
  IN  /\ pc[s] = "collect"
      /\ \/ \E p \in Members(job.pgid) :
              /\ Exited(p)
              /\ jobs' = [jobs EXCEPT ![s][i].nlive = @ - 1]
              /\ IF job.nlive = 1
                 THEN /\ cur' = [cur EXCEPT ![s] = @ + 1]
                      /\ pc' = [pc EXCEPT ![s] = "kill"]
                 ELSE UNCHANGED <<cur, pc>>
         \/ /\ Members(job.pgid) = {}     \* ECHILD
            /\ cur' = [cur EXCEPT ![s] = @ + 1]
            /\ pc' = [pc EXCEPT ![s] = "kill"]
            /\ UNCHANGED <<kernel, jobs>>
      /\ UNCHANGED <<fg, quit, conn, left>>

(* The list is freed. *)
SessionEnd(s) ==
  /\ pc[s] = "kill"
  /\ cur[s] > Len(jobs[s])
  /\ pc' = [pc EXCEPT ![s] = "gone"]
  /\ jobs' = [jobs EXCEPT ![s] = << >>]
  /\ fg' = [fg EXCEPT ![s] = 0]
  /\ UNCHANGED <<kernel, cur, quit, conn, left>>

(* The client exits or dies; left[s] is what it sent and nobody has read. *)
Disconnect(s) ==
  /\ pc[s] # "accept"
  /\ conn[s]
  /\ conn' = [conn EXCEPT ![s] = FALSE]
  /\ \E n \in 0..left[s] : left' = [left EXCEPT ![s] = n]
  /\ UNCHANGED <<kernel, pc, jobs, cur, fg, quit>>

-----------------------------------------------------------------------------
(* What the thread of s does by itself, whatever its client does.          *)
ThreadStep(s) ==
  \/ ReapPoll(s) \/ ReapEnd(s) \/ Sweep(s) \/ Prompt(s) \/ ReadEof(s)
  \/ PumpEnd(s) \/ PumpEof(s) \/ TextFails(s) \/ PollFg(s)
  \/ KillJob(s) \/ Collect(s) \/ SessionEnd(s)

(* What it does with a line from the client. *)
LineStep(s) ==
  \/ CmdNothing(s) \/ CmdJobs(s) \/ CmdQuit(s) \/ CmdFg(s) \/ CmdBg(s) \/ CmdRun(s)
  \/ CtlSignal(s, "INT") \/ CtlSignal(s, "TSTP") \/ CtlEof(s) \/ Text(s)

Next ==
  \/ \E s \in Sessions : \/ Accept(s) \/ Disconnect(s) \/ TextRead(s)
                         \/ ThreadStep(s) \/ LineStep(s)
  \/ \E p \in Pids : ProcessStep(p) /\ UNCHANGED sess

Spec == Init /\ [][Next]_vars

(* The scheduler runs every thread that can run; bytes the client has sent  *)
(* before it went are there to be read; SIGKILL takes effect.               *)
Fairness ==
  /\ \A s \in Sessions : WF_vars(ThreadStep(s) \/ (~conn[s] /\ LineStep(s)))
  /\ \A p \in Pids : WF_vars(DeliverKill(p) /\ UNCHANGED sess)

FairSpec == Spec /\ Fairness

-----------------------------------------------------------------------------
(* Every waitpid(-pgid) and kill(-pgid) a session may still make concerns   *)
(* its own children only, and job->nlive counts exactly those: no thread    *)
(* can reap, signal or wait for another session's job, although pids are    *)
(* reused (the comment on poll_job, jobs.c).  The foreground job is always  *)
(* such a job.                                                              *)
OwnGroup ==
  TypeOK /\ \A s \in Sessions :
    /\ \A i \in DOMAIN jobs[s] :
         LET job == jobs[s][i]
         IN  job.nlive > 0 =>
               /\ job.nlive = Cardinality(Members(job.pgid))
               /\ \A p \in Members(job.pgid) : owner[p] = s
               /\ \A k \in DOMAIN jobs[s] \ {i} :
                    jobs[s][k].nlive > 0 => jobs[s][k].pgid # job.pgid
    /\ pc[s] \in {"pump", "write", "poll", "block"} =>
         fg[s] \in DOMAIN jobs[s] /\ jobs[s][fg[s]].nlive > 0

(* "No child outlives its client" (session_destroy): once a session is      *)
(* gone, whatever it forked is dead or about to be killed.                  *)
NoOrphans ==
  \A s \in Sessions, p \in Pids :
    pc[s] = "gone" /\ owner[p] = s /\ Live(p) => "KILL" \in pend[p]

(* session_destroy always finishes: neither a stopped job nor one whose     *)
(* processes another thread could have reaped keeps jobs_kill_all waiting.  *)
TeardownCompletes ==
  \A s \in Sessions : pc[s] = "kill" ~> pc[s] = "gone"

(* The client dies mid-command: with nothing left to read, a thread that    *)
(* neither is ending nor is writing to a job's stdin ends the session.      *)
LostClientNoticed ==
  \A s \in Sessions :
    (pc[s] \notin {"accept", "write"} /\ ~conn[s] /\ left[s] = 0 /\ ~quit[s])
      ~> pc[s] = "gone"
===============================================================================
