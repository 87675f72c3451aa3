------------------------------- MODULE MCEbpf -------------------------------
\* For Ebpf: a program whose executable lies where load_bias_from_maps says,
\* with two names for one of its functions and one of the standard library,
\* and a library whose code is not mapped from its beginning.
EXTENDS Ebpf, TLC

Exe == <<"bin", "exe">>
Lib == <<"lib", "so">>

MCMaps ==
  <<[start |-> 8, exec |-> TRUE, offset |-> 0, file |-> Exe],
    [start |-> 16, exec |-> FALSE, offset |-> 0, file |-> Lib],
    [start |-> 17, exec |-> TRUE, offset |-> 1, file |-> Lib]>>

MCLoadedAt == Exe :> 8 @@ Lib :> 16

Func(mangled, demangled, vaddr) ==
  [mangled |-> mangled, demangled |-> demangled, vaddr |-> vaddr, func |-> TRUE]

Loaded ==
  load_process_symbols(
    MCMaps,
    Exe :> <<
       <<Func(<<"m", "b">>, <<"b", "b">>, 2), Func(<<"m", "c">>, <<"c">>, 1),
         Func(<<"m", "c", "a">>, <<"a", "b">>, 1), Func(<<"m", "S">>, <<"S", "b">>, 4),
         [Func(<<"d">>, <<"d">>, 0) EXCEPT !.func = FALSE]>>,
       <<Func(<<"m", "c", "a">>, <<"a", "b">>, 1)>>>>
    @@ Lib :> << <<>>, <<Func(<<"m", "l">>, <<"a", "l">>, 3)>>>>,
    <<"a", "b">> :> 1 @@ <<"a", "l">> :> 2 @@ <<"b", "b">> :> 3 @@ <<"c">> :> 4 @@ <<"S", "b">> :> 5)

Symbol(mangled, demangled, object, vaddr) ==
  [mangled |-> mangled, demangled |-> demangled, object |-> object, vaddr |-> vaddr]

MCSymbols ==
  <<Symbol(<<"m", "c", "a">>, <<"a", "b">>, Exe, 1), Symbol(<<"m", "b">>, <<"b", "b">>, Exe, 2),
    Symbol(<<"m", "c">>, <<"c">>, Exe, 1), Symbol(<<"m", "S">>, <<"S", "b">>, Exe, 4),
    Symbol(<<"m", "l">>, <<"a", "l">>, Lib, 3)>>

\* The table is what the loader makes of the two objects.
ASSUME LoadedAssumption == MCSymbols = Loaded

\* `a b` (or `c`), `b b` and the function of the library.
MCFunctions == {9, 10, 19}

R(verb, pattern, count, timed) ==
  [verb |-> verb, pattern |-> pattern, count |-> count, timed |-> timed]

MCRequests ==
  {R("trace", <<"a">>, 1, FALSE), R("trace", <<"*", "b">>, 0, TRUE),
   R("stats", <<"b">>, 2, FALSE), R("top", <<"c">>, 0, FALSE), R("watch", <<>>, 1, FALSE),
   R("monitor", <<"*">>, 2, TRUE), R("on", <<"a", "*">>, 0, FALSE), R("off", <<>>, 0, FALSE),
   R("dashboard", <<>>, 0, TRUE), R("stop", <<>>, 0, FALSE)}
=============================================================================
