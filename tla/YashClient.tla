------------------------------ MODULE YashClient ------------------------------
(***************************************************************************)
(* The yash client (client.c) and the session of yashd that serves it       *)
(* (session.c), joined by a stream socket.  The client reads the user's     *)
(* keys and lines, sends messages and guesses from the last bytes it got    *)
(* whether the server is at its prompt; the session reads whole lines from  *)
(* the stream and hands them to the shell or to the running command.        *)
(*                                                                          *)
(* A stream is a sequence of bytes that reads cut anywhere.  A byte stands  *)
(* for what the code tells apart: the keyword of a command, a control       *)
(* message, the end of a line, either half of the prompt, and text.         *)
(***************************************************************************)
EXTENDS Naturals, Sequences, SequencesExt

CONSTANTS
  BUF_SIZE,     \* YASH_BUF_SIZE
  Lines,        \* the lines a user may type
  MaxEvents     \* bound: lines and keys typed and pieces of output written

NL == "\n"
CMD == "CMD "
CTL(c) == "CTL " \o c
Prompt == <<"\n#", " ">>

ASSUME ClientAssumption ==
  /\ BUF_SIZE \in Nat \ {0}
  /\ MaxEvents \in Nat

VARIABLES
  tty,                  \* is the client's input a terminal?
  typed,                \* what the user typed and nobody read
  left,                 \* events to come
  cpc,                  \* the client: where it is,
  pending, got,         \*   signals pending, flags got_int and got_stop,
  tail, prompt,         \*   the last bytes received, what it makes of them,
  inbuf, stdin_open,    \*   the line being typed, is stdin still read?
  up, down,             \* the bytes on their way to the server, to the client
  spc, sbuf,            \* the session: where it is, s->inbuf,
  infd, quit,           \*   the pipe to the job's stdin, s->quit
  noisy,                \* may a background job write?
  asked, ran, cut       \* history: commands sent, commands run, was a line cut?

user == <<tty, typed, left>>
client == <<cpc, pending, got, tail, prompt, inbuf, stdin_open>>
session == <<spc, sbuf, infd, quit>>
history == <<asked, ran, cut>>
vars == <<user, client, up, down, session, noisy, history>>

Init ==
  /\ tty \in BOOLEAN
  /\ typed = << >> /\ left = MaxEvents
  /\ cpc = "select" /\ pending = {} /\ got = {}
  /\ tail = Prompt /\ prompt = TRUE
  /\ inbuf = << >> /\ stdin_open = TRUE
  /\ up = << >> /\ down = << >>
  /\ spc = "prompt" /\ sbuf = << >> /\ infd = FALSE /\ quit = FALSE
  /\ noisy = FALSE
  /\ asked = << >> /\ ran = << >> /\ cut = FALSE

Least(a, b) == IF a < b THEN a ELSE b
Drop(s, n) == SubSeq(s, n + 1, Len(s))
Position(s, b) == CHOOSE n \in DOMAIN s : s[n] = b /\ \A m \in 1..n - 1 : s[m] # b

-----------------------------------------------------------------------------
(* The user types lines, Ctrl-d (the byte "eof"), Ctrl-c and Ctrl-z.  Input *)
(* from a file ends once.  A terminal hands over one line at a time, so the *)
(* next one is typed when the last has been read.                           *)
TypeLine ==
  /\ left > 0 /\ cpc # "gone"
  /\ IF tty THEN typed = << >> ELSE "eof" \notin ToSet(typed)
  /\ \E line \in Lines, end \in {NL, "eof"} : typed' = typed \o Append(line, end)
  /\ left' = left - 1
  /\ UNCHANGED <<tty, client, up, down, session, noisy, history>>

TypeKey ==
  /\ left > 0 /\ cpc # "gone"
  /\ left' = left - 1
  /\ \E sig \in {"c", "z"} : pending' = pending \cup {sig}
  /\ UNCHANGED <<tty, typed, cpc, got, tail, prompt, inbuf, stdin_open,
                 up, down, session, noisy, history>>

-----------------------------------------------------------------------------
(* client.c                                                                *)

(* send_msg: a message that does not fit is cut, and has no end of line.    *)
Message(prefix, body) ==
  LET m == prefix \o Append(body, NL)
  IN  IF Len(m) >= BUF_SIZE THEN SubSeq(m, 1, BUF_SIZE - 1) ELSE m

Cuts(prefix, body) == Len(prefix) + Len(body) + 1 >= BUF_SIZE

(* What a session that is gone would have read is lost. *)
Sent(bytes) == IF spc = "gone" THEN up ELSE up \o bytes

(* The top of the loop: flags become messages.  Signals are blocked except  *)
(* in pselect, so unless that was interrupted no flag is raised here, and   *)
(* the loop goes from its end straight to pselect.                          *)
Flags ==
  /\ cpc = "top"
  /\ got' = {}
  /\ up' = Sent((IF "c" \in got THEN Message(<< >>, <<CTL("c")>>) ELSE << >>)
             \o (IF "z" \in got THEN Message(<< >>, <<CTL("z")>>) ELSE << >>))
  /\ cpc' = "select"
  /\ UNCHANGED <<user, pending, tail, prompt, inbuf, stdin_open, down, session, noisy, history>>

(* pselect: the signals that arrived while they were blocked are handled in *)
(* it, and it returns.  Faulty variant: select, and signals never blocked:  *)
(* the handler has run before the call.                                     *)
SelectUnblocked ==
  /\ cpc \in {"top", "select"}
  /\ pending # {}
  /\ got' = got \cup pending
  /\ pending' = {}
  /\ UNCHANGED <<user, cpc, tail, prompt, inbuf, stdin_open, up, down, session, noisy, history>>

Interrupted ==
  /\ cpc = "select"
  /\ pending # {}
  /\ got' = pending
  /\ pending' = {}
  /\ cpc' = "top"
  /\ UNCHANGED <<user, tail, prompt, inbuf, stdin_open, up, down, session, noisy, history>>

(* pselect found bytes to read.  The socket comes first; then stdin, if it  *)
(* was readable too.                                                        *)
StdinReady == stdin_open /\ typed # << >>
SocketReady == down # << >> \/ spc = "gone"

(* The last bytes.  Faulty variant: those of one read only. *)
tail_of_read(t, bytes) == IF Len(bytes) > 1 THEN Drop(bytes, Len(bytes) - 2) ELSE <<NL, NL>>
push_tail(t, bytes) == Drop(t \o bytes, Len(bytes))
at_prompt(t) == t = Prompt

(* read returns 0: the loop ends. *)
EndOfStream == cpc' = "gone"

ReadSocket ==
  /\ cpc = "select"
  /\ SocketReady
  /\ \/ /\ down = << >>
        /\ EndOfStream
        /\ UNCHANGED <<tail, prompt, down>>
     \/ \E n \in 1..Least(Len(down), BUF_SIZE) :
          /\ tail' = push_tail(tail, SubSeq(down, 1, n))
          /\ prompt' = at_prompt(tail')
          /\ down' = Drop(down, n)
          /\ cpc' = IF StdinReady THEN "stdin" ELSE "select"
  /\ UNCHANGED <<user, pending, got, inbuf, stdin_open, up, session, noisy, history>>

(* send_line: a command at the prompt, else input for the command that runs.*)
(* quit at the prompt sends nothing; more is sent after the line by Ctrl-d. *)
Quits(line) == prompt /\ line = <<"quit">>

send_line(line, more) ==
  IF Quits(line)
  THEN up' = Sent(more) /\ UNCHANGED <<prompt, asked, cut>>
  ELSE LET prefix == IF prompt THEN <<CMD>> ELSE << >>
       IN  /\ up' = Sent(Message(prefix, line) \o more)
           /\ prompt' = FALSE
           /\ asked' = IF prompt THEN Append(asked, line) ELSE asked
           /\ cut' = (cut \/ Cuts(prefix, line))

AtStdin == cpc = "stdin" \/ (cpc = "select" /\ ~SocketReady /\ StdinReady)

(* Ctrl-d, or the end of a file: the line so far, then CTL d. *)
StdinEof ==
  /\ AtStdin
  /\ Head(typed) = "eof"
  /\ typed' = IF tty THEN Tail(typed) ELSE typed
  /\ IF inbuf # << >>
     THEN send_line(inbuf, Message(<< >>, <<CTL("d")>>))
     ELSE up' = Sent(Message(<< >>, <<CTL("d")>>)) /\ UNCHANGED <<prompt, asked, cut>>
  /\ inbuf' = << >>
  /\ cpc' = IF prompt' THEN "gone" ELSE "select"
  /\ stdin_open' = (prompt' \/ tty)
  /\ UNCHANGED <<tty, left, pending, got, tail, down, session, noisy, ran>>

(* A read takes a line from a terminal, any number of bytes from a file. *)
Available ==
  LET eof == IF "eof" \in ToSet(typed) THEN Position(typed, "eof") - 1 ELSE Len(typed)
      nl == IF tty /\ NL \in ToSet(typed) THEN Position(typed, NL) ELSE Len(typed)
      most == Least(Least(eof, nl), BUF_SIZE - Len(inbuf))
  IN  IF tty THEN {most} ELSE 1..most

(* When no whole line is left in the buffer, the loop goes on; a line that  *)
(* fills the buffer is dropped.                                             *)
Buffered(bytes) ==
  IF NL \in ToSet(bytes) THEN cpc' = "lines" /\ inbuf' = bytes
  ELSE cpc' = "select" /\ inbuf' = (IF Len(bytes) = BUF_SIZE THEN << >> ELSE bytes)

ReadStdin ==
  /\ AtStdin
  /\ Head(typed) # "eof"
  /\ \E n \in Available :
       /\ Buffered(inbuf \o SubSeq(typed, 1, n))
       /\ typed' = Drop(typed, n)
  /\ UNCHANGED <<tty, left, pending, got, tail, prompt, stdin_open,
                 up, down, session, noisy, history>>

(* One turn of the loop over the lines in the buffer. *)
SendLine ==
  /\ cpc = "lines"
  /\ LET n == Position(inbuf, NL)
         line == SubSeq(inbuf, 1, n - 1)
     IN  /\ send_line(line, << >>)
         /\ IF Quits(line) THEN cpc' = "gone" /\ inbuf' = << >>
            ELSE Buffered(Drop(inbuf, n))
  /\ UNCHANGED <<user, pending, got, tail, stdin_open, down, session, noisy, ran>>

-----------------------------------------------------------------------------
(* session.c                                                               *)

(* session_prompt, which may fail once the client is gone. *)
SessionPrompt ==
  /\ spc = "prompt"
  /\ \/ spc' = "read" /\ down' = (IF cpc = "gone" THEN down ELSE down \o Prompt)
     \/ cpc = "gone" /\ spc' = "gone" /\ UNCHANGED down
  /\ UNCHANGED <<user, client, up, sbuf, infd, quit, noisy, history>>

(* buf_fill, called when there is no whole line in the buffer.  A full      *)
(* buffer is dropped, which ends the session unless a job runs.             *)
HasLine == NL \in ToSet(sbuf)

(* What read may return: at most what is left of the buffer.                *)
Space == 1..Least(Len(up), BUF_SIZE - Len(sbuf))

Fill ==
  /\ spc = "read" \/ (spc = "run" /\ ~quit)
  /\ ~HasLine
  /\ \/ /\ Len(sbuf) = BUF_SIZE
        /\ sbuf' = << >>
        /\ spc' = IF spc = "read" THEN "gone" ELSE spc
        /\ UNCHANGED up
     \/ \E n \in Space :
          /\ sbuf' = sbuf \o SubSeq(up, 1, n)
          /\ up' = Drop(up, n)
          /\ UNCHANGED spc
     \/ /\ Len(sbuf) < BUF_SIZE
        /\ up = << >> /\ cpc = "gone"
        /\ spc' = "gone"
        /\ UNCHANGED <<sbuf, up>>
  /\ UNCHANGED <<user, client, down, infd, quit, noisy, history>>

(* buf_take_line.  Faulty variant: the line stays in the buffer. *)
Line == SubSeq(sbuf, 1, Position(sbuf, NL) - 1)
KeepLine == UNCHANGED sbuf
Consume == sbuf' = Drop(sbuf, Position(sbuf, NL))

Begins(line, keyword) == line # << >> /\ Head(line) = keyword

(* dispatch: handle_cmd starts a job in the foreground, does something that *)
(* is over at once, such as starting one in the background, or quits.       *)
Dispatch ==
  /\ spc = "read"
  /\ HasLine
  /\ Consume
  /\ IF Begins(Line, CMD)
     THEN /\ ran' = Append(ran, Tail(Line))
          /\ \/ spc' = "run" /\ infd' = TRUE /\ UNCHANGED noisy
             \/ spc' = "prompt" /\ noisy' \in {noisy, TRUE} /\ UNCHANGED infd
             \/ spc' = "gone" /\ UNCHANGED <<infd, noisy>>
     ELSE /\ spc' = IF Begins(Line, CTL("d")) THEN "gone" ELSE "prompt"
          /\ UNCHANGED <<ran, infd, noisy>>
  /\ UNCHANGED <<user, client, up, down, quit, asked, cut>>

(* dispatch_running: CTL d closes the job's input, the second one ends the  *)
(* session; a signal to the job, and its input, leave the session as it is. *)
DispatchRunning ==
  /\ spc = "run"
  /\ HasLine
  /\ Consume
  /\ IF Begins(Line, CTL("d"))
     THEN infd' = FALSE /\ quit' = (quit \/ ~infd)
     ELSE UNCHANGED <<infd, quit>>
  /\ UNCHANGED <<user, client, up, down, spc, noisy, history>>

(* The job has ended or stopped: jobs_wait_fg looks once the buffer holds   *)
(* no whole line.                                                           *)
JobEnds ==
  /\ spc = "run"
  /\ ~HasLine
  /\ spc' = IF quit THEN "gone" ELSE "prompt"
  /\ infd' = FALSE
  /\ UNCHANGED <<user, client, up, down, sbuf, quit, noisy, history>>

(* A job writes to the socket it has inherited. *)
Output ==
  /\ left > 0
  /\ spc = "run" \/ (noisy /\ spc # "gone")
  /\ left' = left - 1
  /\ \E piece \in {<<"o">>, Prompt} : down' = IF cpc = "gone" THEN down ELSE down \o piece
  /\ UNCHANGED <<tty, typed, client, up, session, noisy, history>>

-----------------------------------------------------------------------------
ClientStep ==
  \/ Flags \/ Interrupted \/ ReadSocket \/ StdinEof \/ ReadStdin \/ SendLine

SessionStep == SessionPrompt \/ Fill \/ Dispatch \/ DispatchRunning

Next == TypeLine \/ TypeKey \/ ClientStep \/ SessionStep \/ JobEnds \/ Output

Spec == Init /\ [][Next]_vars

(* The client and the session run; users and jobs do as they like. *)
FairSpec == Spec /\ WF_vars(ClientStep) /\ WF_vars(SessionStep)

-----------------------------------------------------------------------------
TypeOK ==
  /\ cpc \in {"top", "select", "stdin", "lines", "gone"}
  /\ spc \in {"prompt", "read", "run", "gone"}
  /\ Len(tail) = 2
  /\ Len(inbuf) <= BUF_SIZE /\ Len(sbuf) <= BUF_SIZE
  /\ prompt \in BOOLEAN /\ infd \in BOOLEAN /\ quit \in BOOLEAN

(* The session runs whole lines that the user typed as commands, each once  *)
(* and in the order typed, wherever reads cut the stream; as long as no     *)
(* line was too long for send_msg.                                          *)
CommandsWhole ==
  /\ TypeOK
  /\ ~cut => \E f \in [DOMAIN ran -> DOMAIN asked] :
            /\ \A n \in DOMAIN ran : ran[n] = asked[f[n]]
            /\ \A n, m \in DOMAIN ran : n < m => f[n] < f[m]

(* No prompt is lost: when the session waits for a line and nothing is on   *)
(* its way, the client knows that it may send a command.                    *)
Quiet == up = << >> /\ down = << >> /\ sbuf = << >> /\ cpc = "select"
PromptReturns == Quiet /\ spc = "read" /\ ~noisy => prompt

(* A key is sent at once: pselect does not sleep with a flag raised. *)
KeysSent == \A sig \in {"c", "z"} : sig \in pending \cup got ~> sig \notin pending \cup got \/ cpc = "gone"
===============================================================================
