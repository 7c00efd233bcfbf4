------------------------------ MODULE YashParse ------------------------------
(***************************************************************************)
(* parse_line, the parser that yash and yashd share (parse.c), and the      *)
(* grammar it is meant to accept.  A line is the sequence of its tokens,    *)
(* which blanks separate, and its length in characters, blanks included.    *)
(***************************************************************************)
EXTENDS Naturals, Sequences, SequencesExt

CONSTANTS Words,             \* tokens that are not operators
          YASH_MAX_LINE,
          YASH_MAX_TOKENS,
          YASH_MAX_ARGS,
          MaxTokens          \* bound: tokens of the lines that are tried

ASSUME ParseAssumption ==
  /\ Words \cap {"<", ">", "2>", "|", "&"} = {}
  /\ YASH_MAX_LINE \in Nat /\ YASH_MAX_TOKENS \in Nat
  /\ YASH_MAX_ARGS \in Nat \ {0} /\ MaxTokens \in Nat

Redirections == {"<", ">", "2>"}
is_operator(tok) == tok \in Redirections \cup {"|", "&"}

(* cmd_t; file[r] is infile, outfile or errfile, a sequence of no word or   *)
(* one: << >> is the NULL pointer.                                          *)
NoCmd == [argv |-> << >>, file |-> [r \in Redirections |-> << >>]]

YASH_MAX_CMDS == 2
PARSE_ERROR == [status |-> "error"]
PARSE_EMPTY == [status |-> "empty"]

(* The state of the loop: the commands filled so far, the last of them      *)
(* being cur; the redirection whose file is the next token, if any;         *)
(* whether this command had one; whether & has been seen.                   *)
Start == [status |-> "ok", cmds |-> <<NoCmd>>, slot |-> "none",
          redirect_seen |-> FALSE, background |-> FALSE]

Cur(s) == s.cmds[Len(s.cmds)]

Redirect(s, tok) ==
  IF Cur(s).argv = << >> \/ Cur(s).file[tok] # << >> THEN PARSE_ERROR
  ELSE [s EXCEPT !.slot = tok]

Target(s, tok) ==
  IF is_operator(tok) THEN PARSE_ERROR
  ELSE [s EXCEPT !.cmds[Len(s.cmds)].file[s.slot] = <<tok>>,
                 !.slot = "none", !.redirect_seen = TRUE]

(* Faulty variant: redirect_seen is still set for the second command. *)
PipeKeepSeen(s) ==
  IF Len(s.cmds) >= YASH_MAX_CMDS \/ Cur(s).argv = << >> THEN PARSE_ERROR
  ELSE [s EXCEPT !.cmds = Append(@, NoCmd)]

Pipe(s) ==
  IF Len(s.cmds) >= YASH_MAX_CMDS \/ Cur(s).argv = << >> THEN PARSE_ERROR
  ELSE [s EXCEPT !.cmds = Append(@, NoCmd), !.redirect_seen = FALSE]

(* That & is the last token shows when another one follows. *)
Background(s) ==
  IF Len(s.cmds) # 1 THEN PARSE_ERROR ELSE [s EXCEPT !.background = TRUE]

Word(s, tok) ==
  IF s.redirect_seen \/ Len(Cur(s).argv) = YASH_MAX_ARGS THEN PARSE_ERROR
  ELSE [s EXCEPT !.cmds[Len(s.cmds)].argv = Append(@, tok)]

Token(s, tok) ==
  IF s.status # "ok" \/ s.background THEN PARSE_ERROR
  ELSE CASE s.slot # "none" -> Target(s, tok)
         [] s.slot = "none" /\ tok \in Redirections -> Redirect(s, tok)
         [] s.slot = "none" /\ tok = "|" -> Pipe(s)
         [] s.slot = "none" /\ tok = "&" -> Background(s)
         [] OTHER -> Word(s, tok)

(* strlen counts the characters of the line. *)
parse_line(tokens, strlen) ==
  LET s == FoldLeft(Token, Start, tokens)
  IN  CASE strlen > YASH_MAX_LINE -> PARSE_ERROR
        [] strlen <= YASH_MAX_LINE /\ tokens = << >> -> PARSE_EMPTY
        [] strlen <= YASH_MAX_LINE /\ Len(tokens) > YASH_MAX_TOKENS -> PARSE_ERROR
        [] OTHER -> IF s.status # "ok" \/ s.slot # "none" \/ Cur(s).argv = << >>
                    THEN PARSE_ERROR
                    ELSE [status |-> "ok", cmds |-> s.cmds, background |-> s.background]

-----------------------------------------------------------------------------
(* The grammar: one command, optionally followed by &, or two with | between *)
(* them.  A command is its words, then its redirections in any order, each   *)
(* kind once at most.                                                        *)

Lines == UNION {[1..n -> Words \cup Redirections \cup {"|", "&"}] : n \in 0..MaxTokens}

(* A line that fits, filled up with blanks, and the longest one that        *)
(* main's buffer of YASH_MAX_LINE + 2 characters holds.                     *)
Lengths == {YASH_MAX_LINE, YASH_MAX_LINE + 1}

(* The ways to write a command down. *)
Spellings(cmd) ==
  LET used == {r \in Redirections : cmd.file[r] # << >>}
      Files(order) == FlattenSeq([i \in DOMAIN order |-> <<order[i]>> \o cmd.file[order[i]]])
  IN  {cmd.argv \o Files(order) : order \in SetToSeqs(used)}

JobSpellings(cmds, background) ==
  IF Len(cmds) = 1
  THEN {c \o (IF background THEN <<"&">> ELSE << >>) : c \in Spellings(cmds[1])}
  ELSE {c \o <<"|">> \o d : c \in Spellings(cmds[1]), d \in Spellings(cmds[2])}

(* The commands of at most n tokens. *)
Commands(n) ==
  {c \in [argv : UNION {[1..k -> Words] : k \in 1..YASH_MAX_ARGS},
          file : [Redirections -> {<< >>} \cup {<<w>> : w \in Words}]] :
     \E l \in Spellings(c) : Len(l) <= n}

Meanings ==
  {[status |-> "ok", cmds |-> <<c>>, background |-> b] : c \in Commands(MaxTokens), b \in BOOLEAN}
  \cup {[status |-> "ok", cmds |-> <<c, d>>, background |-> FALSE] :
          c, d \in Commands(MaxTokens - 2)}

Sentences(job) ==
  {l \in JobSpellings(job.cmds, job.background) : Len(l) <= MaxTokens /\ Len(l) <= YASH_MAX_TOKENS}

Grammatical == UNION {Sentences(job) : job \in Meanings}

ParserAgrees ==
  /\ \A job \in Meanings : \A l \in Sentences(job) : parse_line(l, YASH_MAX_LINE) = job
  /\ \A l \in Lines \ Grammatical : parse_line(l, YASH_MAX_LINE).status # "ok"
  /\ \A l \in Lines : parse_line(l, YASH_MAX_LINE + 1).status # "ok"

(* What the parser makes of the lines that are not errors. *)
Parsed == {job \in {parse_line(l, n) : l \in Lines, n \in Lengths} : job.status = "ok"}
=============================================================================
