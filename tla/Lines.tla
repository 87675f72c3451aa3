------------------------------- MODULE Lines --------------------------------
(***************************************************************************)
(* What becomes of a command line on its way: the CLI's own flags          *)
(* (rthas-cli/src/main.rs), the wrapping of a command (rthas/src/jobs.rs)  *)
(* and its arguments (Args of rthas/src/agent.rs, and the helper's).       *)
(*                                                                         *)
(* A token is a word, [key |-> "", eq |-> FALSE, val], or an option        *)
(* spelled --key or --key=val.                                             *)
(***************************************************************************)
EXTENDS Naturals, Sequences, SequencesExt, TLC

CONSTANT Numerals  \* the texts that read as a number

Arg(text) == [key |-> "", eq |-> FALSE, val |-> text]
Option(key) == [key |-> key, eq |-> FALSE, val |-> ""]
OptionEq(key, val) == [key |-> key, eq |-> TRUE, val |-> val]

\* The text a token gives when it is taken for a value.
Text(t) == IF t.key = "" THEN t.val ELSE "--" \o t.key
None == "none"
Numeral(text) == IF text \in Numerals THEN text ELSE None

-----------------------------------------------------------------------------
(* The agent's side.                                                        *)

\* parse_job_line: `&` may stand last, and before it `>` or `>>` with a file.
parse_job_line(toks) ==
  LET amp == toks # <<>> /\ Last(toks) = Arg("&")
      rest == IF amp THEN Front(toks) ELSE toks
      n == Len(rest)
      redirected == n >= 2 /\ rest[n - 1] \in {Arg(">"), Arg(">>")}
  IN  [cmd |-> IF redirected THEN SubSeq(rest, 1, n - 2) ELSE rest,
       redirect |-> IF redirected THEN <<Text(rest[n]), rest[n - 1] = Arg(">>")>> ELSE <<>>,
       background |-> amp]

VALUELESS_FLAGS == {"native", "list", "clear", "full", "all", "stack", "d", "decode", "c",
                    "error", "success", "exception"}

NeverValueless(key) == FALSE
Valueless(key) == key \in VALUELESS_FLAGS

\* One token of Args::parse; want is the flag that takes the next word.
ArgsToken(acc, t, valueless) ==
  LET Set(k, v) == [acc EXCEPT !.flags = (k :> v) @@ @, !.want = ""]
  IN  IF t.key # ""
      THEN [Set(t.key, t.val) EXCEPT !.want = IF t.eq \/ t.key \in valueless THEN "" ELSE t.key]
      ELSE IF acc.want # "" THEN Set(acc.want, t.val)
      ELSE [acc EXCEPT !.pos = Append(@, t.val)]

ArgsOf(toks, valueless) ==
  LET acc == FoldLeft(LAMBDA a, t : ArgsToken(a, t, valueless),
                      [pos |-> <<>>, flags |-> <<>>, want |-> ""], toks)
  IN  [pos |-> acc.pos, flags |-> acc.flags]

ArgsParse(toks) == ArgsOf(toks, {k \in VALUELESS_FLAGS : Valueless(k)})

\* The helper knows no flag without a value.
EbpfArgsParse(toks) == ArgsOf(toks, {})

pattern(a) == IF Len(a.pos) > 1 THEN a.pos[2] ELSE ""
num(a, key, default) ==
  IF key \in DOMAIN a.flags /\ a.flags[key] \in Numerals THEN a.flags[key] ELSE default

-----------------------------------------------------------------------------
(* The CLI's side.                                                          *)

TargetFlags == {"pid", "sock", "sock-dir", "password"}

\* A target flag in front of everything goes to the end.
RotatedBare(argv) ==
  IF Len(argv) >= 2 /\ argv[1].key \in TargetFlags /\ ~argv[1].eq
  THEN SubSeq(argv, 3, Len(argv)) \o SubSeq(argv, 1, 2) ELSE argv
rotate_target_flags(argv) ==
  IF argv # <<>> /\ argv[1].key \in TargetFlags /\ argv[1].eq
  THEN Tail(argv) \o <<argv[1]>> ELSE RotatedBare(argv)

NoTarget == [k \in TargetFlags |-> None]
Value(key, text) == IF key = "pid" THEN Numeral(text) ELSE text

\* What the CLI keeps of the arguments, and what goes on to the agent;
\* --sock-dir=DIR is not among what it knows.
TargetToken(acc, t) ==
  CASE acc.want # "" -> [acc EXCEPT !.target[acc.want] = Value(acc.want, Text(t)), !.want = ""]
    [] acc.want = "" /\ t.key \in TargetFlags /\ ~t.eq ->
         [acc EXCEPT !.want = t.key, !.target[t.key] = None]
    [] acc.want = "" /\ t.key \in TargetFlags \ {"sock-dir"} /\ t.eq ->
         [acc EXCEPT !.target[t.key] = Value(t.key, t.val)]
    [] OTHER -> [acc EXCEPT !.forwarded = Append(@, t)]

parse_target(args) ==
  LET acc == FoldLeft(TargetToken, [target |-> NoTarget, forwarded |-> <<>>, want |-> ""], args)
  IN  [target |-> acc.target, forwarded |-> acc.forwarded]

\* world: the environment (sock_dir and sock, None when unset), the sockets of
\* each directory by their pid, and the pids that live.
sock_dir(target, world) ==
  IF target["sock-dir"] # None THEN target["sock-dir"]
  ELSE IF world.sock_dir # None THEN world.sock_dir ELSE "/tmp"

\* A socket whose process has gone is left out.
discover(dir, world) == {<<dir, pid>> : pid \in world.sockets[dir] \cap world.alive}

\* The path of the socket, <<directory, pid>> when it is made of these, or why
\* there is none.
resolve_sock(target, world) ==
  LET dir == sock_dir(target, world)
      found == discover(dir, world)
  IN  IF target["sock"] # None THEN <<target["sock"]>>
      ELSE IF target["pid"] # None THEN <<dir, target["pid"]>>
      ELSE IF world.sock # None THEN <<world.sock>>
      ELSE IF found = {} THEN <<"no agent found">>
      ELSE IF \E a, b \in found : a # b THEN <<"disambiguate">>
      ELSE CHOOSE s \in found : TRUE

\* The pid is the last word, or unknown flag, that was read as one.
AttachToken(acc, t) ==
  CASE acc.want                                 -> [acc EXCEPT !.dir = Text(t), !.want = FALSE]
    [] ~acc.want /\ t = Option("ebpf")          -> [acc EXCEPT !.ebpf = TRUE]
    [] ~acc.want /\ t = Option("sock-dir")      -> [acc EXCEPT !.want = TRUE, !.dir = None]
    [] ~acc.want /\ t.key = "sock-dir" /\ t.eq  -> [acc EXCEPT !.dir = t.val]
    [] OTHER                                    -> [acc EXCEPT !.pid = Numeral(Text(t))]

attach_args(args) ==
  LET acc == FoldLeft(AttachToken, [pid |-> None, dir |-> None, ebpf |-> FALSE, want |-> FALSE], args)
  IN  [ok |-> acc.pid # None, pid |-> acc.pid, dir |-> acc.dir, ebpf |-> acc.ebpf]

-----------------------------------------------------------------------------
(* main.                                                                    *)

RemoteCommands == {"list", "trace", "watch", "stats", "on", "off", "tt", "stop", "auth", "jobs"}

\* cmd_remote: what is sent to whom.
cmd_remote(cmd, args, world) ==
  LET t == parse_target(args)
  IN  [does |-> "send", to |-> resolve_sock(t.target, world), password |-> t.target["password"],
       line |-> <<cmd>> \o t.forwarded]

\* The shell and scripts have no use for what is not a target flag.
Converse(does, what, args, world) ==
  LET t == parse_target(args)
  IN  [does |-> does, to |-> resolve_sock(t.target, world), password |-> t.target["password"],
       line |-> what]

Usage == [does |-> "usage"]
Fails == [does |-> "fails"]

main(given, world) ==
  LET argv == rotate_target_flags(given)
      rest == Tail(argv)
      Script(does) ==
        IF rest = <<>> THEN Fails ELSE Converse(does, <<rest[1]>>, Tail(rest), world)
      first == argv[1]
  IN  IF argv = <<>> THEN Usage
      ELSE CASE first \in {Arg("-h"), Option("help")} -> Usage
             [] first = Arg("help") ->
                  IF rest # <<>> /\ rest[1].key = "" THEN cmd_remote(first, rest, world) ELSE Usage
             [] first = Arg("ps") ->
                  [does |-> "ps", all |-> Option("all") \in ToSet(rest),
                   filter |-> LET words == SelectSeq(rest, LAMBDA t : t.key = "")
                              IN  IF words = <<>> THEN "" ELSE words[1].val]
             [] first = Arg("attach") ->
                  IF attach_args(rest).ok THEN [does |-> "attach", with |-> attach_args(rest)] ELSE Fails
             [] first = Arg("shell") -> Converse("shell", <<>>, rest, world)
             [] first \in {Arg("-f"), Option("file")} -> Script("script")
             [] first = Arg("-c") -> Script("one line")
             [] first.key = "" /\ first.val \in RemoteCommands -> cmd_remote(first, rest, world)
             [] OTHER -> Fails

-----------------------------------------------------------------------------
(* Which processes carry probes.                                            *)

\* contains: from one occurrence of the first byte to the next.
contains(haystack, needle) ==
  \E i \in 1..Len(haystack) :
    /\ haystack[i] = needle[1]
    /\ i + Len(needle) - 1 <= Len(haystack)
    /\ SubSeq(haystack, i, i + Len(needle) - 1) = needle

\* What is kept of what was searched, for the next chunk.
CarryOfChunk(haystack, chunk, overlap) ==
  SubSeq(chunk, IF Len(chunk) > overlap THEN Len(chunk) - overlap + 1 ELSE 1, Len(chunk))
Carry(haystack, chunk, overlap) ==
  SubSeq(haystack, IF Len(haystack) > overlap THEN Len(haystack) - overlap + 1 ELSE 1, Len(haystack))

\* file_contains: chunks is what each read returns.
file_contains(chunks, needle) ==
  FoldLeft(LAMBDA acc, chunk :
             LET haystack == acc.carry \o chunk
             IN  IF acc.found THEN acc
                 ELSE [found |-> contains(haystack, needle),
                       carry |-> Carry(haystack, chunk, Len(needle) - 1)],
           [found |-> FALSE, carry |-> <<>>], chunks).found

\* cmd_ps --all: processes is a sequence of [name, binary], a binary being None
\* when nobody can tell it; files holds the chunks of those that can be read.
\* Each binary is read once.  A name passes the filter that is part of it: here
\* it has no other parts than itself.
PsProbed(probed, binary, files, needle) ==
  IF binary = None \/ binary \in DOMAIN probed THEN probed
  ELSE [b \in DOMAIN probed \cup {binary} |->
          IF b \in DOMAIN probed THEN probed[b]
          ELSE b \in DOMAIN files /\ file_contains(files[b], needle)]

cmd_ps(processes, filter, files, needle) ==
  FoldLeft(LAMBDA acc, p :
             LET probed == PsProbed(acc.probed, p.binary, files, needle)
             IN  IF filter # "" /\ p.name # filter THEN acc
                 ELSE [probed |-> probed,
                       rows |-> Append(acc.rows, <<p.name, p.binary # None /\ probed[p.binary]>>)],
           [probed |-> <<>>, rows |-> <<>>], processes)
=============================================================================
