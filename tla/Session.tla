------------------------------ MODULE Session -------------------------------
(***************************************************************************)
(* One conversation per client: the CLI sends a line and reads up to the   *)
(* line END, the agent's thread for that connection records it, lets it    *)
(* through or refuses it, runs it and answers.                             *)
(*                                                                         *)
(* A text is a line that is written: "END", which a reply may hold by      *)
(* accident, or anything else.  A text of Unended lacks its newline, so    *)
(* that what is written next goes on in the same line: "glued" is a line   *)
(* that came about like this, "glued-" one that is unended again.  No text *)
(* of Unended is blank: END behind it is not END to `line.trim()`.         *)
(***************************************************************************)
EXTENDS Integers, Sequences, FiniteSets

CONSTANTS
  Clients,
  Files,        \* the paths commands name
  FileText,     \* Files -> sequences of texts: what they hold at first
  Conversations,\* what each client is started with: [secret, from, lines]
  Unended,      \* texts without their newline
  CAP,          \* lines of history kept
  Word          \* what verbs, arguments, paths and texts are

\* A command line: whether a flag stands before the verb, the verb with its
\* argument, `&`, `>` or `>>` with a path, and `|` with a filter.
CommandLine ==
  [flag : BOOLEAN, verb : Word \ Unended, arg : Word, bg : BOOLEAN,
   redir : {"no", ">", ">>"}, to : Word, pipe : {"no", "wc", "bad"}]

\* What the CLI and the agent say of their own accord; a newline is missing
\* behind what `cls` prints.
OwnWords ==
  {"", "auth", "END", "refused", "job", "wrote", "unknown", "count", "missing", "true",
   "false", "cleared", "ok", "required", "disabled", "stopped", "glued"}
OwnUnended == {"escape", "glued-"}

ASSUME SessionAssumption ==
  /\ CAP \in Nat \ {0}
  /\ OwnUnended \subseteq Unended /\ Unended \subseteq Word
  /\ OwnWords \subseteq Word \ Unended
  /\ FileText \in [Files -> Seq(Word)]
  /\ \A f \in Files : \A i \in 1..(Len(FileText[f]) - 1) : FileText[f][i] \notin Unended
  /\ Conversations \subseteq
       [Clients -> [secret : Word, from : {"-c", "-f", "shell"}, lines : Seq(CommandLine)]]

VARIABLES
  password,                         \* whether RTHAS_PASSWORD is set
  conv, cli, pos, got, cur, buffer, \* the CLI processes
  up, down,                         \* the sockets, both ways
  at, cmd, authed, keep, pend,      \* the agent's threads
  enabled, files, hist, jobs,       \* what they share
  wrote, granted, acted             \* history

client == <<conv, cli, pos, got, cur, buffer>>
socket == <<up, down>>
handler == <<at, cmd, authed, keep, pend>>
shared == <<enabled, files, hist, jobs>>
ghosts == <<wrote, granted, acted>>
vars == <<password, client, socket, handler, shared, ghosts>>

-----------------------------------------------------------------------------
(* Command lines.                                                           *)

\* The gates look at the first token of a line, what runs is the first token
\* that is no flag.
tok(l) == IF l.flag THEN "--x" ELSE l.verb

Free == {"auth", "help", "ping", "quit"}
auth_free(t) == t \in Free
Foreground == {"jobs", "kill", "help", "quit", "stop", "auth"}
cannot_background(t) == t \in Foreground

\* cmd_script_file leaves out blank lines and comments; -c and the shell's
\* input are sent as they are, but for the blank lines of the shell.
LeavesOutNone(from, l) == FALSE
LeavesOut(from, l) ==
  \/ from = "-f" /\ l.verb \in {"", "#"}
  \/ from = "shell" /\ l.verb = ""

Line(verb, arg) ==
  [flag |-> FALSE, verb |-> verb, arg |-> arg, bg |-> FALSE, redir |-> "no", to |-> "", pipe |-> "no"]

\* maybe_auth sends the secret it was given before anything else.
Lines(c) ==
  (IF conv[c].secret = "none" THEN <<>> ELSE <<Line("auth", conv[c].secret)>>)
  \o conv[c].lines

-----------------------------------------------------------------------------
SessionInit ==
  /\ password \in BOOLEAN
  /\ conv \in Conversations
  /\ cli = [c \in Clients |-> "send"] /\ pos = [c \in Clients |-> 1]
  /\ got = [c \in Clients |-> <<>>] /\ cur = [c \in Clients |-> <<>>]
  /\ buffer = [c \in Clients |-> <<>>]
  /\ up = [c \in Clients |-> <<>>] /\ down = [c \in Clients |-> <<>>]
  /\ at = [c \in Clients |-> "read"] /\ cmd = [c \in Clients |-> Line("", "")]
  /\ authed = [c \in Clients |-> ~password] /\ keep = [c \in Clients |-> TRUE]
  /\ pend = [c \in Clients |-> <<>>]
  /\ enabled = FALSE /\ files = FileText /\ hist = <<>> /\ jobs = {}
  /\ wrote = [c \in Clients |-> <<>>] /\ granted = [c \in Clients |-> FALSE] /\ acted = TRUE

-----------------------------------------------------------------------------
(* The CLI.                                                                 *)

Current(c) == Lines(c)[pos[c]]

\* A line that is left out: `.filter` of a script, `continue` of the shell.
Skip(c) ==
  /\ cli[c] = "send" /\ pos[c] <= Len(Lines(c))
  /\ LeavesOut(conv[c].from, Current(c))
  /\ pos' = [pos EXCEPT ![c] = @ + 1]
  /\ UNCHANGED <<password, conv, cli, got, cur, buffer, socket, handler, shared, ghosts>>

\* The next line goes out; to an agent that has closed it cannot be sent.
Send(c) ==
  /\ cli[c] = "send" /\ pos[c] <= Len(Lines(c))
  /\ ~LeavesOut(conv[c].from, Current(c))
  /\ IF at[c] = "closed"
     THEN cli' = [cli EXCEPT ![c] = "done"] /\ UNCHANGED <<up, cur, buffer>>
     ELSE /\ cli' = [cli EXCEPT ![c] = "read"]
          /\ up' = [up EXCEPT ![c] = Append(@, Current(c))]
          /\ cur' = [cur EXCEPT ![c] = <<>>] /\ buffer' = [buffer EXCEPT ![c] = <<>>]
  /\ UNCHANGED <<password, conv, pos, got, down, handler, shared, ghosts>>

\* After a reply: the loop ends with quit or stop typed as nothing but that,
\* and with a secret that was not accepted.
LastLine(c) ==
  \/ Current(c) \in {Line("quit", ""), Line("stop", "")}
  \/ conv[c].secret # "none" /\ pos[c] = 1 /\ \A i \in 1..Len(cur[c]) : cur[c][i] # "true"

EndReply(c) ==
  /\ got' = [got EXCEPT ![c] = Append(@, cur[c])]
  /\ pos' = [pos EXCEPT ![c] = @ + 1]
  /\ cli' = [cli EXCEPT ![c] = IF LastLine(c) THEN "done" ELSE "send"]
  /\ UNCHANGED cur

\* stream_to_stdout and read_reply: a fresh reader for each reply takes what
\* there is on the socket; what it has left at the end of the reply is lost.
\* The end of the connection ends the reply as well.
ReadReply(c) ==
  LET there == buffer[c] \o down[c]
  IN  /\ cli[c] = "read"
      /\ there # <<>> \/ at[c] = "closed"
      /\ down' = [down EXCEPT ![c] = <<>>]
      /\ buffer' = [buffer EXCEPT ![c] = IF there = <<>> THEN <<>> ELSE Tail(there)]
      /\ IF there = <<>> \/ Head(there) = "END"
         THEN EndReply(c)
         ELSE cur' = [cur EXCEPT ![c] = Append(@, Head(there))] /\ UNCHANGED <<got, pos, cli>>
      /\ UNCHANGED <<password, conv, up, handler, shared, ghosts>>

Hangup(c) ==
  /\ cli' = [cli EXCEPT ![c] = "done"]
  /\ UNCHANGED <<password, conv, pos, got, cur, buffer, socket, handler, shared, ghosts>>

\* Nothing is left to send; or somebody interrupts a shell in a reply.
Finish(c) == cli[c] = "send" /\ pos[c] > Len(Lines(c)) /\ Hangup(c)
Interrupt(c) == cli[c] = "read" /\ conv[c].from = "shell" /\ Hangup(c)

-----------------------------------------------------------------------------
(* The agent's thread for one connection.                                   *)

Answer(c, texts) ==
  /\ pend' = [pend EXCEPT ![c] = texts]
  /\ wrote' = [wrote EXCEPT ![c] = Append(@, texts)]
  /\ at' = [at EXCEPT ![c] = "reply"]

\* handle_client: a blank line is passed over without an answer, any other is
\* kept in the history, whoever sent it, before it is looked at.
Receive(c) ==
  /\ at[c] = "read" /\ up[c] # <<>>
  /\ up' = [up EXCEPT ![c] = Tail(@)]
  /\ IF Head(up[c]).verb = ""
     THEN UNCHANGED <<at, cmd, hist>>
     ELSE /\ cmd' = [cmd EXCEPT ![c] = Head(up[c])]
          /\ at' = [at EXCEPT ![c] = "gate"]
          /\ hist' = Append(IF Len(hist) < CAP THEN hist ELSE Tail(hist), Head(up[c]).verb)
  /\ UNCHANGED <<password, client, down, authed, keep, pend, enabled, files, jobs, ghosts>>

\* dispatch asks for the password first, of the first token.
NeedsAuth(c) == password /\ ~authed[c] /\ ~auth_free(tok(cmd[c]))

Refuse(c) ==
  /\ at[c] = "gate"
  /\ \/ NeedsAuth(c)
     \/ cmd[c].bg /\ cannot_background(tok(cmd[c]))
     \/ cmd[c].redir # "no" /\ cmd[c].to \notin Files
  /\ Answer(c, <<"refused">>)
  /\ UNCHANGED <<password, client, socket, cmd, authed, keep, shared, granted, acted>>

Opened(l) == IF l.redir = ">" THEN [files EXCEPT ![l.to] = <<>>] ELSE files
Passes(c) ==
  /\ at[c] = "gate" /\ ~NeedsAuth(c)
  /\ cmd[c].redir # "no" => cmd[c].to \in Files

\* spawn_background: the job takes the permission of its connection along.
Submit(c) ==
  /\ Passes(c) /\ cmd[c].bg /\ ~cannot_background(tok(cmd[c]))
  /\ jobs' = jobs \cup {[by |-> c, nr |-> Len(wrote[c]) + 1, line |-> cmd[c],
                          authed |-> authed[c], granted |-> granted[c]]}
  /\ files' = Opened(cmd[c])
  /\ Answer(c, <<"job">>)
  /\ UNCHANGED <<password, client, socket, cmd, authed, keep, enabled, hist, granted, acted>>

\* run_redirected opens the file, and empties it, before the command runs.
Begin(c) ==
  /\ Passes(c) /\ ~cmd[c].bg
  /\ at' = [at EXCEPT ![c] = "run"]
  /\ files' = Opened(cmd[c])
  /\ UNCHANGED <<password, client, socket, cmd, authed, keep, pend, enabled, hist, jobs, ghosts>>

\* cmd_auth: the last answer counts, right or wrong; without a password
\* everybody is let in.
AuthOnceRight(l, was) == was \/ (l.verb = "auth" /\ (~password \/ l.arg = "right"))
Authed(l, was) == IF l.verb = "auth" THEN ~password \/ l.arg = "right" ELSE was

\* What a command says.  cat writes a file as it is (and base64 -d a payload).
Says(l, ok) ==
  CASE l.verb = "auth"    -> IF ok THEN <<"true">> ELSE <<"false">>
    [] l.verb = "cat"     -> IF l.arg \in Files THEN files[l.arg] ELSE <<"missing">>
    [] l.verb = "history" -> IF l.arg = "-c" THEN <<"cleared">> ELSE hist
    [] l.verb = "session" -> IF ok THEN <<"ok">> ELSE <<"required">>
    [] l.verb = "stop"    -> <<"disabled", "stopped">>
    [] l.verb = "cls"     -> <<"escape">>
    [] OTHER              -> <<l.verb>>

\* What is there when t is written behind s.
Glued(text) == IF text \in Unended THEN "glued-" ELSE "glued"
Followed(s, t) ==
  IF s # <<>> /\ t # <<>> /\ s[Len(s)] \in Unended
  THEN SubSeq(s, 1, Len(s) - 1) \o <<Glued(Head(t))>> \o Tail(t)
  ELSE s \o t

\* dispatch_piped and dispatch_verb: an unknown filter stops the command
\* before it begins; sink is the file its words go to, "" for none.
Runs(l) == l.pipe # "bad"
Texts(l, ok) == CASE l.pipe = "no"  -> Says(l, ok)
                  [] l.pipe = "wc"  -> <<"count">>
                  [] l.pipe = "bad" -> <<"unknown">>

Effect(l, texts, sink) ==
  /\ enabled' = IF Runs(l) /\ l.verb \in {"on", "stop"} THEN l.verb = "on" ELSE enabled
  /\ hist' = IF Runs(l) /\ l.verb = "history" /\ l.arg = "-c" THEN <<>> ELSE hist
  /\ files' = IF sink = "" THEN files ELSE [files EXCEPT ![sink] = Followed(@, texts)]

Acts(l, ok) == acted' = (acted /\ (password /\ l.verb \notin Free => ok))

Run(c) ==
  LET l == cmd[c]
      now == IF Runs(l) THEN Authed(l, authed[c]) ELSE authed[c]
      texts == Texts(l, now)
  IN  /\ at[c] = "run"
      /\ Effect(l, texts, IF l.redir = "no" THEN "" ELSE l.to)
      /\ authed' = [authed EXCEPT ![c] = now]
      /\ keep' = [keep EXCEPT ![c] = ~(Runs(l) /\ l.verb \in {"quit", "stop"})]
      /\ Answer(c, IF l.redir = "no" THEN texts ELSE <<"wrote">>)
      /\ granted' = [granted EXCEPT ![c] = IF l.verb = "auth" /\ Runs(l) THEN l.arg = "right" ELSE @]
      /\ Acts(l, granted[c])
      /\ UNCHANGED <<password, client, socket, cmd, jobs>>

\* The thread of a job; what it says goes to its log.
RunJob ==
  \E j \in jobs :
    LET l == j.line
        texts == Texts(l, IF Runs(l) THEN Authed(l, j.authed) ELSE j.authed)
    IN  /\ jobs' = jobs \ {j}
        /\ Effect(l, texts, IF l.redir = "no" THEN "" ELSE l.to)
        /\ Acts(l, j.granted)
        /\ UNCHANGED <<password, client, socket, handler, wrote, granted>>

\* The answer leaves in pieces, END last.  An unended line does not reach the
\* reader of lines before the rest of it.
Write(c) ==
  /\ at[c] = "reply" /\ cli[c] # "done"
  /\ \E n \in 1..Len(pend[c]) :
       /\ \A i \in 1..n : pend[c][i] \notin Unended
       /\ pend' = [pend EXCEPT ![c] = SubSeq(@, n + 1, Len(@))]
       /\ down' = [down EXCEPT ![c] = @ \o SubSeq(pend[c], 1, n)]
  /\ UNCHANGED <<password, client, up, at, cmd, authed, keep, shared, ghosts>>

Started(c) == at[c] = "reply"
Written(c) == at[c] = "reply" /\ \A i \in 1..Len(pend[c]) : pend[c][i] \in Unended

\* writeln!(writer, "{END}") ends the line that is there, if there is one.
EndLine(c) == IF \E i \in 1..Len(pend[c]) : pend[c][i] \in Unended THEN "glued" ELSE "END"

WriteEnd(c) ==
  /\ Written(c) /\ cli[c] # "done"
  /\ down' = [down EXCEPT ![c] = Append(@, EndLine(c))]
  /\ pend' = [pend EXCEPT ![c] = <<>>]
  /\ at' = [at EXCEPT ![c] = IF keep[c] THEN "read" ELSE "closing"]
  /\ UNCHANGED <<password, client, up, cmd, authed, keep, shared, ghosts>>

\* The thread ends after quit or stop, or when its client has left, which it
\* notices when it reads the next line or writes.
Close(c) ==
  /\ \/ at[c] = "closing"
     \/ cli[c] = "done" /\ (at[c] = "reply" \/ (at[c] = "read" /\ up[c] = <<>>))
  /\ at' = [at EXCEPT ![c] = "closed"]
  /\ UNCHANGED <<password, client, socket, cmd, authed, keep, pend, shared, ghosts>>

-----------------------------------------------------------------------------
Cli(c) == Skip(c) \/ Send(c) \/ ReadReply(c) \/ Finish(c)
Agent(c) == \/ Receive(c) \/ Refuse(c) \/ Submit(c) \/ Begin(c) \/ Run(c)
            \/ Write(c) \/ WriteEnd(c) \/ Close(c)

\* An answer whose last line was unended ran into END, so that the client does
\* not see its end.
LeftUnended(c) ==
  \E k \in 1..Len(wrote[c]) : wrote[c][k] # <<>> /\ wrote[c][k][Len(wrote[c][k])] \in Unended

\* Both wait for the other, for ever.
Waits(c) ==
  /\ cli[c] = "read" /\ at[c] = "read" /\ LeftUnended(c)
  /\ up[c] = <<>> /\ down[c] = <<>> /\ buffer[c] = <<>>

\* Every client is served or waits in vain, and every job has run.
Quiet ==
  /\ \A c \in Clients : Waits(c) \/ (cli[c] = "done" /\ at[c] = "closed")
  /\ jobs = {} /\ UNCHANGED vars

SessionNext ==
  \/ \E c \in Clients : Cli(c) \/ Agent(c) \/ Interrupt(c)
  \/ RunJob \/ Quiet

\* The processes and threads are scheduled; every command modelled ends.
SessionSpec ==
  /\ SessionInit /\ [][SessionNext]_vars
  /\ \A c \in Clients : WF_vars(Cli(c)) /\ WF_vars(Agent(c))

-----------------------------------------------------------------------------
\* While a password is set, nothing but auth, help, ping and quit ever runs for
\* a connection whose last auth was not right: not behind `&`, where it runs
\* after its connection may have lost the permission it had, not behind `>` or
\* `|`, not with a flag before its verb, and not because of what the other
\* connections were allowed.
OnlyGranted == acted

\* A client takes for the answer to a command what the agent wrote for that
\* very command and all of it, however it was cut on its way, as long as
\* nothing written to it held the line that ends a reply and no answer ended
\* without a newline, which cat, base64 -d and cls do not see to; once the agent
\* has ended the connection an answer may be missing, never another's.
RepliesMatch ==
  \A c \in Clients :
    (\A k \in 1..Len(wrote[c]) : \A i \in 1..Len(wrote[c][k]) :
       wrote[c][k][i] \notin {"END"} \cup Unended)
      => \A k \in 1..Len(got[c]) : got[c][k] = IF k <= Len(wrote[c]) THEN wrote[c][k] ELSE <<>>

\* A script ends, refused or not, with the agent stopped under it or by it, END
\* in a payload or not, since each of its lines is answered or the connection
\* is closed - unless an answer ends without a newline (cat or base64 -d of such
\* a text, cls): the code lets END run into its last line, and the script
\* waits for ever.
ScriptEnds ==
  \A c \in Clients : conv[c].from = "-f" ~> (cli[c] = "done" \/ LeftUnended(c))

TypeOK ==
  /\ password \in BOOLEAN /\ conv \in Conversations
  /\ cli \in [Clients -> {"send", "read", "done"}]
  /\ \A c \in Clients : pos[c] \in 1..(Len(Lines(c)) + 1) /\ Len(got[c]) < pos[c]
  /\ at \in [Clients -> {"read", "gate", "run", "reply", "closing", "closed"}]
  /\ authed \in [Clients -> BOOLEAN] /\ keep \in [Clients -> BOOLEAN]
  /\ granted \in [Clients -> BOOLEAN] /\ acted \in BOOLEAN
  /\ enabled \in BOOLEAN /\ DOMAIN files = Files /\ Len(hist) <= CAP
  /\ \A j \in jobs : j.by \in Clients /\ j.nr <= Len(wrote[j.by])

\* Types, and each answer taken for what it is.
RepliesHold == TypeOK /\ RepliesMatch
=============================================================================
