------------------------------ MODULE Symbols -------------------------------
(***************************************************************************)
(* What the eBPF helper can attach to: rthas-ebpf/src/symbols.rs and the   *)
(* commands of server.rs that mark symbols.                                *)
(*                                                                         *)
(* Names are sequences of characters; the character "S" stands for a       *)
(* segment std::, core:: or alloc::, "_" for the prefixes __ and pthread.  *)
(* An entry of an ELF table is [mangled, demangled, vaddr, func], func     *)
(* being whether it is a defined function with a proper name; a symbol is  *)
(* [mangled, demangled, object, vaddr].  A mapping is                      *)
(* [start, exec, offset, file], a file being its directory and its name,   *)
(* or <<>>.                                                                *)
(***************************************************************************)
EXTENDS Glob, Functions, FiniteSets

StartsWith(t, s) == At(t, s, 1)

is_internal(demangled, mangled) ==
  \/ StartsWith(<<"S">>, demangled) \/ StartsWith(<<"_">>, demangled)
  \/ Occurrences(<<":", "S">>, demangled) # {}
  \/ StartsWith(<<"_">>, mangled)

pattern_targets_internal(pattern) ==
  "S" \in ToSet(pattern) \/ StartsWith(<<"_">>, pattern)

keep_symbol(pattern, sym) ==
  /\ EbpfGlobMatch(pattern, sym.demangled) \/ EbpfGlobMatch(pattern, sym.mangled)
  /\ is_internal(sym.demangled, sym.mangled) => pattern_targets_internal(pattern)

push_funcs(object, table) ==
  LET funcs == SelectSeq(table, LAMBDA e : e.func)
  IN  [k \in 1..Len(funcs) |-> [mangled |-> funcs[k].mangled, demangled |-> funcs[k].demangled,
                                object |-> object, vaddr |-> funcs[k].vaddr]]

\* A stable sort by demangled name, rank being the order of names.
Unsorted(symbols, rank) == symbols
Sorted(symbols, rank) ==
  LET order == SetToSortSeq(1..Len(symbols),
                 LAMBDA i, j : \/ rank[symbols[i].demangled] < rank[symbols[j].demangled]
                               \/ rank[symbols[i].demangled] = rank[symbols[j].demangled] /\ i < j)
  IN  [k \in 1..Len(symbols) |-> symbols[order[k]]]

\* dedup_by: of neighbours with the same mangled name the first stays.
Dedup(symbols) ==
  FoldLeft(LAMBDA out, s : IF out # <<>> /\ Last(out).mangled = s.mangled THEN out
                           ELSE Append(out, s),
           <<>>, symbols)

\* parse_elf_bytes: the static and the dynamic table of one object.
parse_elf(object, syms, dynsyms, rank) ==
  Dedup(Sorted(push_funcs(object, syms) \o push_funcs(object, dynsyms), rank))

\* mapped_objects: the files mapped executable, each once.
mapped_objects(maps) ==
  FoldLeft(LAMBDA out, m : IF m.exec /\ m.file # <<>> /\ m.file \notin ToSet(out)
                           THEN Append(out, m.file) ELSE out, <<>>, maps)

\* The start of the first executable mapping at offset 0, of this file or of one
\* with the same name elsewhere; 0 when there is none.
load_bias_from_maps(maps, object) ==
  LET hits == SelectSeq(maps, LAMBDA m : m.exec /\ m.file # <<>> /\ m.offset = 0 /\ m.file[2] = object[2])
  IN  IF hits = <<>> THEN 0 ELSE hits[1].start

\* load_process_symbols: tables is what can be read of each object, as
\* <<static, dynamic>>; an object nobody can parse is passed over.
load_process_symbols(maps, tables, rank) ==
  LET objects == SelectSeq(mapped_objects(maps), LAMBDA o : o \in DOMAIN tables)
  IN  FlattenSeq([k \in 1..Len(objects) |->
                    parse_elf(objects[k], tables[objects[k]][1], tables[objects[k]][2], rank)])

\* The address bpf_get_func_ip has to report for lookup to find the symbol.
RuntimeIp(sym, maps) == sym.vaddr + load_bias_from_maps(maps, sym.object)

\* The first ids of a set, limit at most.
FirstOf(ids, limit) ==
  [k \in 1..(IF Cardinality(ids) > limit THEN limit ELSE Cardinality(ids)) |->
     CHOOSE i \in ids : Cardinality({j \in ids : j <= i}) = k]

\* select_ids: the first symbols that are kept, MAX_ATTACH at most; none for
\* the empty pattern.
select_ids(symbols, pattern, limit) ==
  IF pattern = <<>> THEN <<>>
  ELSE FirstOf({i \in 1..Len(symbols) : keep_symbol(pattern, symbols[i])}, limit)

\* set_enabled, and `off` without a pattern.
set_enabled(symbols, enabled, pattern, on) ==
  LET hit == {i \in 1..Len(symbols) : keep_symbol(pattern, symbols[i])}
  IN  IF ~on /\ pattern = <<>> THEN {} ELSE IF on THEN enabled \cup hit ELSE enabled \ hit

\* cmd_list asks the glob alone: it shows symbols `on` leaves out.
cmd_list(symbols, pattern) ==
  {i \in 1..Len(symbols) : \/ EbpfGlobMatch(pattern, symbols[i].demangled)
                           \/ EbpfGlobMatch(pattern, symbols[i].mangled)}

=============================================================================
