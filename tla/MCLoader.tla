------------------------------ MODULE MCLoader ------------------------------
EXTENDS Loader

At(dir, name) == [dir |-> dir, name |-> name]

MCDirs == {"lib", "outside"}
MCNames == {"main", "a", "b", "b2", "c", "ld"}

Text(pages) == {[vaddr |-> 0, memsz |-> 4 * pages, perm |-> {"r", "w"}]}

Plain ==
  [sound |-> TRUE, needed |-> <<>>, interp |-> None, segments |-> Text(1), header |-> Some(0),
   plt |-> FALSE, data |-> <<>>, tls |-> None, symbols |-> <<>>, relocs |-> <<>>]

Symbol(name, value) == [name |-> name, value |-> value, defined |-> TRUE, tls |-> FALSE]
ThreadSymbol(name, value) == [Symbol(name, value) EXCEPT !.tls = TRUE]
Import(name) == [Symbol(name, 0) EXCEPT !.defined = FALSE]

Reloc(kind, at, sym, addend) ==
  [kind |-> kind, at |-> at, sym |-> sym, addend |-> addend, size |-> 1, plt |-> FALSE, impl |-> None]

Base ==
  [root |-> At("lib", "main"), roots |-> <<"lib">>, allowed |-> {"lib"}, links |-> <<>>,
   weights |-> TRUE, objects |-> <<>>]

\* Ways for a program and three libraries to need each other, where c is an
\* object, missing, outside, or a link to a.
Needs == {<<>>, <<"a">>, <<"b">>, <<"b", "a">>, <<"c">>}
Links == {<<>>, At("lib", "c") :> At("outside", "c"), At("lib", "c") :> At("lib", "a")}

GraphOf(m, a, b, c) ==
  (At("lib", "main") :> [Plain EXCEPT !.needed = m]) @@ (At("lib", "a") :> [Plain EXCEPT !.needed = a])
    @@ (At("lib", "b") :> [Plain EXCEPT !.needed = b]) @@ c

Graphs ==
  {[Base EXCEPT !.links = link, !.objects = GraphOf(m, a, b, <<>>)] :
     m \in Needs, a \in Needs, b \in Needs, link \in Links}
  \cup
  {[Base EXCEPT !.objects = GraphOf(m, a, b, At("lib", "c") :> [Plain EXCEPT !.needed = c])] :
     m \in Needs, a \in Needs, b \in Needs, c \in {<<>>, <<"a">>, <<"b">>}}

-----------------------------------------------------------------------------
Main ==
  [Plain EXCEPT
     !.needed = <<"a", "b">>, !.interp = Some("ld"), !.segments = Text(2),
     !.tls = Some([image |-> <<71>>, memsz |-> 2, align |-> 4]),
     !.symbols = <<Symbol("x", 1), ThreadSymbol("v", 1), Import("f"), Import("t")>>,
     !.relocs = <<Reloc("bind", 2, Some("f"), Some(0)), Reloc("dtpmod", 3, Some("t"), Some(0)),
                  Reloc("dtpoff", 4, Some("t"), Some(0)), Reloc("tpoff", 5, Some("v"), Some(0)),
                  [Reloc("irelative", 6, None, Some(1)) EXCEPT !.plt = TRUE, !.impl = Some(2)],
                  Reloc("none", 0, None, None)>>]

LibA ==
  [Plain EXCEPT
     !.segments = Text(2), !.data = (2 :> 3),
     !.tls = Some([image |-> <<72, 73>>, memsz |-> 3, align |-> 1]),
     !.symbols = <<Symbol("f", 1), Symbol("x", 2), ThreadSymbol("t", 1), Symbol("long", 4)>>,
     !.relocs = <<Reloc("bind", 0, Some("x"), Some(1)), Reloc("relative", 2, None, None),
                  Reloc("tpoff", 3, Some("t"), Some(1)), Reloc("bind", 4, None, Some(5))>>]

LibB ==
  [Plain EXCEPT
     !.segments = Text(2),
     !.tls = Some([image |-> <<74>>, memsz |-> 1, align |-> 2]),
     !.symbols = <<Symbol("f", 3), ThreadSymbol("t", 0), ThreadSymbol("w", 0)>>,
     !.relocs = <<Reloc("bind", 0, Some("f"), Some(0)), Reloc("dtpmod", 1, Some("w"), Some(0)),
                  Reloc("dtpoff", 2, Some("w"), None), Reloc("dtpmod", 3, None, None),
                  [Reloc("irelative", 6, None, Some(1)) EXCEPT !.plt = TRUE, !.impl = Some(3)],
                  [Reloc("copy", 4, Some("long"), None) EXCEPT !.size = 2]>>]

Ld ==
  [Plain EXCEPT
     !.symbols = <<Symbol("_rtld_global", 0), Symbol("f", 2)>>,
     !.relocs = <<Reloc("bind", 1, Some("__gmon_start__"), Some(0)), Reloc("relative", 2, None, Some(1))>>]

Full ==
  [Base EXCEPT !.objects =
     (At("lib", "main") :> Main) @@ (At("lib", "a") :> LibA) @@ (At("lib", "b") :> LibB)
       @@ (At("lib", "ld") :> Ld)]

With(name, object) == [Full EXCEPT !.objects[At("lib", name)] = object]

\* The full system, and one for each thing that can be otherwise in it.
Variants ==
  {Full,
   [Full EXCEPT !.weights = FALSE],
   [Base EXCEPT !.weights = FALSE, !.objects = At("lib", "main") :> Plain],
   [Base EXCEPT !.root = At("outside", "main"), !.objects = At("outside", "main") :> Plain],
   [Full EXCEPT !.root = At("lib", "b2"), !.links = At("lib", "b2") :> At("lib", "main")],
   [Full EXCEPT !.roots = <<"outside", "lib">>],
   [Full EXCEPT !.roots = <<"outside">>],
   With("main", [Main EXCEPT !.sound = FALSE]),
   With("main", [Main EXCEPT !.interp = None]),
   With("main", [Main EXCEPT !.plt = TRUE]),
   With("main", [Main EXCEPT !.header = None]),
   With("main", [Main EXCEPT !.needed = <<"b", "a">>]),
   With("main", [Main EXCEPT !.relocs[5].impl = None]),
   With("main", [Main EXCEPT !.relocs[1].sym = Some("missing")]),
   With("main", [Main EXCEPT !.relocs[1].kind = "irelative", !.relocs[1].addend = None]),
   With("main", [Main EXCEPT !.relocs[1].kind = "unknown"]),
   With("main", [Main EXCEPT !.relocs[1].at = 40]),
   With("main", [Main EXCEPT !.relocs[1].at = 88]),
   With("main", [Main EXCEPT !.relocs[1].at = 103]),
   With("main", [Main EXCEPT !.relocs = <<Reloc("bind", 2, Some("x"), None)>> \o @]),
   With("main", [Main EXCEPT !.relocs[6] = Reloc("bind", 2, Some("x"), None)]),
   With("main", [Main EXCEPT !.relocs[1].at = 6]),
   With("main", [Main EXCEPT !.relocs[4].at = 3]),
   With("main", [Main EXCEPT !.tls = Some([image |-> <<71, 71, 71>>, memsz |-> 2, align |-> 0])]),
   With("a", [LibA EXCEPT !.tls = Some([image |-> [k \in 1 .. 16 |-> k], memsz |-> 18, align |-> 0])]),
   With("a", [LibA EXCEPT !.tls = Some([image |-> <<72>>, memsz |-> 40, align |-> 1])]),
   With("a", [LibA EXCEPT !.tls = None]),
   With("a", [LibA EXCEPT !.needed = <<"ld">>]),
   With("a", [LibA EXCEPT !.segments = Text(10)]),
   With("b", [LibB EXCEPT !.relocs[6].size = 0]),
   With("b", [LibB EXCEPT !.relocs[1].at = 5]),
   With("b", [LibB EXCEPT !.relocs[6].sym = Some("x")]),
   With("ld", [Ld EXCEPT !.interp = Some("ld")]),
   With("ld", [Ld EXCEPT !.symbols = <<>>]),
   With("ld", [Ld EXCEPT !.tls = Some([image |-> <<75>>, memsz |-> 1, align |-> 8])])}

MCSystems == Graphs \cup Variants
=============================================================================
