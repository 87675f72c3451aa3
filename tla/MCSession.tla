----------------------------- MODULE MCSession ------------------------------
\* Two clients of one agent, of the kinds that get in each other's way.
EXTENDS Session

To(l, how, path) == [l EXCEPT !.redir = how, !.to = path]
Pipe(l, filter) == [l EXCEPT !.pipe = filter]
Bg(l) == [l EXCEPT !.bg = TRUE]
Flagged(l) == [l EXCEPT !.flag = TRUE]

MCUnended == OwnUnended \cup {"c-"}

MCWord ==
  OwnWords \cup {"a", "b", "e", "f", "x", "-c", "#", "on", "right", "wrong", "none", "stop", "cat",
               "history", "session", "quit", "ping", "cls", "t"} \cup MCUnended

\* One file holds END, one has no newline at its end.
MCFileText ==
  [f \in {"f", "e", "t"} |-> CASE f = "f" -> <<"a", "b">> [] f = "e" -> <<"a", "END", "b">>
                               [] f = "t" -> <<"a", "c-">>]

Talk(secret, from, lines) == [secret |-> secret, from |-> from, lines |-> lines]

Refused == Talk("none", "-f", <<Line("", ""), Line("on", ""), Line("#", ""), Bg(Line("on", ""))>>)
Wrong == Talk("wrong", "-f", <<Line("on", "")>>)
Demoted == Talk("right", "-f", <<Bg(To(Line("cat", "f"), ">", "f")), Line("auth", "wrong"), Line("cat", "f")>>)
Careless == Talk("right", "shell", <<Line("cat", "e"), Line("stop", "")>>)
Sly == Talk("none", "shell", <<Pipe(Line("auth", "right"), "bad"), Flagged(Line("stop", "")),
                               To(Line("quit", ""), ">>", "f"), Line("ping", "")>>)
Busy == Talk("right", "-f", <<Bg(Flagged(Line("stop", ""))), To(Line("on", ""), ">", "x"),
                              Pipe(Line("history", "-c"), "wc")>>)
Boss == Talk("right", "-f", <<Bg(Line("stop", "")), Line("auth", "wrong"), Line("session", "")>>)

Pair(a, b) == [c \in Clients |-> IF c = 1 THEN a ELSE b]
Torn == Talk("none", "-f", <<Pipe(Line("cat", "t"), "wc"), To(Line("cat", "t"), ">>", "f"),
                            Line("cat", "f"), Line("ping", "")>>)
Mending == Talk("right", "shell", <<To(Line("cat", "e"), ">>", "t"), Line("cls", ""), Line("ping", "")>>)

MCConversations ==
  {Pair(Refused, Careless), Pair(Demoted, Sly), Pair(Wrong, Busy), Pair(Boss, Careless),
   Pair(Busy, Sly), Pair(Boss, Demoted), Pair(Torn, Mending)}
=============================================================================
