----------------------------- MODULE SymbolIndex -----------------------------
(***************************************************************************)
(* The index of a source tree: the walk that finds its files, and the      *)
(* symbols, imports, exports and test relations extracted from them        *)
(* (discovery/discover-files.ts, indexing/extract-symbols.ts).             *)
(*                                                                         *)
(* A name is the sequence of its parts, the extensions among them, as in   *)
(* <<"a", ".test", ".ts">>; a path is a directory, a sequence of names,    *)
(* and a name.  The import of a relative module is the path it denotes.    *)
(***************************************************************************)
EXTENDS Integers, FiniteSets, FiniteSetsExt, Sequences, SequencesExt

CONSTANT Trees   \* source trees: sets of entries [dir, name, kind, access, code]
VARIABLE indexed \* the walk and the extraction, and what they have found

Ignored == {<<"node_modules">>, <<"", ".git">>, <<"dist">>, <<"target">>}
Sources == <<".ts", ".tsx", ".js", ".jsx", ".mjs", ".cjs">>
Allowed == ToSet(Sources) \cup {".json", ".md", ".py"}
Path(dir, name) == [dir |-> dir, name |-> name]
PathOf(entry) == Path(entry.dir, entry.name)
Extension(name) == IF Len(name) > 1 THEN Last(name) ELSE ""

\* -------------------------------------------------------------------- discovery
Inside(tree, dir) == {e \in tree : e.dir = dir}
Included(entry) == entry.kind = "file" /\ (Extension(entry.name) \in Allowed \/ entry.name = <<"Dockerfile">>)
Opens(entry) == entry.kind = "dir" /\ entry.name \notin Ignored /\ entry.access = "granted"

\* ------------------------------------------------------------------- resolution
WithExtension(path, name, ext) == Path(path.dir, Append(name, ext))
Name(path) == path.name   \* mutant of Stem
Stem(path) == IF Extension(path.name) \in ToSet(Sources) THEN Front(path.name) ELSE path.name
Spellings(base) ==
    <<base>> \o [k \in DOMAIN Sources |-> WithExtension(base, Stem(base), Sources[k])]
             \o [k \in DOMAIN Sources |-> WithExtension(base, base.name, Sources[k])]
             \o <<Path(Append(base.dir, base.name), <<"index", ".ts">>),
                  Path(Append(base.dir, base.name), <<"index", ".js">>)>>
\* the files an import may stand for: the first that is indexed, or none
Resolved(paths, base) ==
    LET hits == {k \in DOMAIN Spellings(base) : Spellings(base)[k] \in paths}
    IN IF hits = {} THEN {} ELSE {Spellings(base)[Min(hits)]}

\* ------------------------------------------------------------------- extraction
FileNode(path) == <<"file", path>>
PackageNode(to) == <<"package", to>>
SymbolNode(path, pos) == <<"symbol", path, pos>>
Edge(relation, from, to) == [relation |-> relation, from |-> from, to |-> to]

Parsed(entry) == Extension(entry.name) \in ToSet(Sources)
Declares(d) == d.kind \notin {"import", "reexport"}
\* the declaration of a variable carries no modifier: its statement does
Exported(d) == Declares(d) /\ d.exported /\ d.kind \notin {"constant", "variable"}
Targets(paths, d) ==
    IF d.relative THEN {FileNode(p) : p \in Resolved(paths, d.to)} ELSE {PackageNode(d.to)}

EdgesOf(paths, entry) ==
    LET file == FileNode(PathOf(entry))
        at(k) == SymbolNode(PathOf(entry), k)
        declared == {k \in DOMAIN entry.code : Declares(entry.code[k])}
        linking == DOMAIN entry.code \ declared
    IN {Edge("CONTAINS", file, at(k)) : k \in declared}
       \cup {Edge("EXPORTS", file, at(k)) : k \in {j \in declared : Exported(entry.code[j])}}
       \cup (UNION {{Edge(IF entry.code[k].kind = "import" THEN "IMPORTS" ELSE "EXPORTS", file, target)
                        : target \in Targets(paths, entry.code[k])} : k \in linking})

\* ---------------------------------------------------------------- test relations
IsTest(name) == \E k \in 1..(Len(name) - 1) : k > 1 /\ name[k] = ".test"
Basename(name) == IF Len(name) > 1 THEN Front(name) ELSE name
Tested(name) == IF Len(name) > 2 /\ name[Len(name) - 1] = ".test" THEN SubSeq(name, 1, Len(name) - 2) ELSE name
\* of files with one basename the last that was found wins
NamedAs(files, basename) ==
    {k \in DOMAIN files : ~IsTest(files[k].name) /\ Basename(files[k].name) = basename}
TestEdges(files) ==
    {Edge("TESTS", FileNode(PathOf(files[k])), FileNode(PathOf(files[Max(NamedAs(files, Tested(files[k].name)))])))
        : k \in {j \in DOMAIN files : IsTest(files[j].name) /\ NamedAs(files, Tested(files[j].name)) # {}}}

\* ---------------------------------------------------------------------- actions
Start(tree) == [pc |-> "walk", tree |-> tree, open |-> <<Inside(tree, <<>>)>>, files |-> <<>>,
                at |-> 1, symbols |-> {}, edges |-> {}]
Init == \E tree \in Trees : indexed = Start(tree)

\* The next entry of the innermost directory, in whatever order the system lists them.
Visit(entry) ==
    LET rest == [indexed.open EXCEPT ![Len(indexed.open)] = @ \ {entry}]
    IN /\ indexed.pc = "walk" /\ indexed.open # <<>> /\ entry \in Last(indexed.open)
       /\ indexed' = [indexed EXCEPT
             !.open = IF Opens(entry)
                      THEN Append(rest, Inside(indexed.tree, Append(entry.dir, entry.name))) ELSE rest,
             !.files = IF Included(entry) /\ entry.access # "gone" THEN Append(@, entry) ELSE @]

Leave ==
    /\ indexed.pc = "walk" /\ indexed.open # <<>> /\ Last(indexed.open) = {}
    /\ indexed' = [indexed EXCEPT !.open = Front(@), !.pc = IF Len(indexed.open) = 1 THEN "extract" ELSE @]

Paths == {PathOf(indexed.files[k]) : k \in DOMAIN indexed.files}

\* One file: parsed if it is source code, and an unreadable one fails the whole extraction.
Extract ==
    LET entry == indexed.files[indexed.at] IN
    /\ indexed.pc = "extract" /\ indexed.at <= Len(indexed.files)
    /\ indexed' = IF ~Parsed(entry) THEN [indexed EXCEPT !.at = @ + 1]
                  ELSE IF entry.access = "denied" THEN [indexed EXCEPT !.pc = "failed"]
                  ELSE [indexed EXCEPT !.at = @ + 1,
                           !.symbols = @ \cup {SymbolNode(PathOf(entry), k) :
                                                   k \in {j \in DOMAIN entry.code : Declares(entry.code[j])}},
                           !.edges = @ \cup EdgesOf(Paths, entry)]

Link ==
    /\ indexed.pc = "extract" /\ indexed.at > Len(indexed.files)
    /\ indexed' = [indexed EXCEPT !.pc = "done", !.edges = @ \cup TestEdges(indexed.files)]

Next == (\E entry \in indexed.tree : Visit(entry)) \/ Leave \/ Extract \/ Link

\* ------------------------------------------------------------------- properties
\* what "./a.js" or "./a" in an import may mean: the path itself, a source of that name, with
\* the written extension or instead of it, or the index of a directory
Meant(path, base) ==
    \/ path = base
    \/ /\ path.dir = base.dir /\ Extension(path.name) \in ToSet(Sources)
       /\ \/ Front(path.name) = base.name
          \/ Extension(base.name) \in ToSet(Sources) /\ Front(path.name) = Front(base.name)
    \/ path.dir = Append(base.dir, base.name) /\ path.name \in {<<"index", ".ts">>, <<"index", ".js">>}

Reached(tree, entry) ==
    \A k \in DOMAIN entry.dir :
        \E d \in tree : Opens(d) /\ d.dir = SubSeq(entry.dir, 1, k - 1) /\ d.name = entry.dir[k]
Imports(entry) == {d \in ToSet(entry.code) : d.kind = "import" /\ d.relative}

\* A finished index is the graph of the tree, in whatever order the tree was listed: it has the
\* files that can be reached and no others; an import is linked whenever a file of the project
\* may be meant, to the very file it spells when there is one, and never to anything that is
\* not indexed; a test is tied to a file it is named after whenever there is one
\* (discover-files.ts 53-85, extract-symbols.ts 28-90, 169-181).
ImportsReachTheirFile ==
    LET linked(entry, path) == Edge("IMPORTS", FileNode(PathOf(entry)), FileNode(path)) \in indexed.edges
        tests(entry) == {p \in Paths : Edge("TESTS", FileNode(PathOf(entry)), FileNode(p)) \in indexed.edges}
        named(entry) == {p \in Paths : p.name \notin {entry.name} /\ ~IsTest(p.name)
                                       /\ Basename(p.name) = Tested(entry.name)}
    IN indexed.pc = "done" =>
        /\ Paths = {PathOf(e) : e \in {f \in indexed.tree :
                       Included(f) /\ f.access # "gone" /\ Reached(indexed.tree, f)}}
        /\ \A entry \in {e \in ToSet(indexed.files) : Parsed(e)} : \A d \in Imports(entry) :
              /\ (\E p \in Paths : Meant(p, d.to)) => \E p \in Paths : Meant(p, d.to) /\ linked(entry, p)
              /\ d.to \in Paths => linked(entry, d.to)
        /\ \A entry \in ToSet(indexed.files) :
              /\ \A p \in Paths : linked(entry, p) => \E d \in Imports(entry) : Meant(p, d.to)
              /\ IsTest(entry.name) => /\ tests(entry) \subseteq named(entry)
                                       /\ Cardinality(tests(entry)) = Min({1, Cardinality(named(entry))})
        /\ \A e \in indexed.edges :
              e.to[1] = "package" \/ e.to \in indexed.symbols \/ e.to \in {FileNode(p) : p \in Paths}
=============================================================================
