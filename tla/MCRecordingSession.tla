------------------------- MODULE MCRecordingSession -------------------------
(***************************************************************************)
(* Small directories for TLC: a source file that imports up to two others  *)
(* (a library, a second one, itself, one that is missing or unreadable,    *)
(* the same one twice), with and without a main of its own, with names of  *)
(* its own and names a library has too.                                    *)
(***************************************************************************)
EXTENDS RecordingSession

MCFile == {"app", "lib", "lib2"}
MCFnName == {"main", "t", "f", "g"}

Fn(name, line, last, transition, calls) ==
    [name |-> name, line |-> line, last |-> last, transition |-> transition, calls |-> calls]

Readable(newlines, legacy, decls, imports) ==
    [status |-> "readable", newlines |-> newlines, legacy |-> legacy,
     decls |-> decls, imports |-> imports]

Without(status) == [Readable(0, FALSE, <<>>, <<>>) EXCEPT !.status = status]

\* The source: its last line has no newline; main calls a function of its own
\* and one that only a library may have.  The last one's parameter list is not closed.
AppDecls ==
    { <<Fn("main", 2, 6, TRUE, <<"f", "g">>), Fn("f", 5, 6, FALSE, <<>>)>>,
      <<Fn("t", 2, 4, TRUE, <<"g">>), Fn("f", 5, 6, TRUE, <<"g">>)>>,
      <<Fn("t", 1, 6, TRUE, <<"g", "g">>)>>,
      <<Fn("f", 1, 5, FALSE, <<>>), Fn("t", 6, 7, TRUE, <<>>)>> }

Imports == {<<>>} \cup {<<p>> : p \in MCFile} \cup {<<p, q>> : p, q \in MCFile}

Apps == {Readable(5, legacy, ds, is) : legacy \in BOOLEAN, ds \in AppDecls, is \in Imports}

Libs == { Without("missing"), Without("unreadable"),
          Readable(2, TRUE, <<Fn("g", 1, 3, FALSE, <<>>)>>, <<>>),
          Readable(2, TRUE, <<Fn("g", 1, 2, TRUE, <<"f">>), Fn("main", 3, 3, TRUE, <<>>)>>, <<>>),
          Readable(2, TRUE, <<Fn("f", 2, 3, FALSE, <<>>)>>, <<"lib2">>) }

\* `second` is small: what matters of the other import is that it may collide.
Seconds == {Without("missing"), Readable(3, TRUE, <<Fn("g", 2, 4, FALSE, <<>>)>>, <<>>)}

\* Two functions that call each other do not come to an end in the code either.
Recursive(a, l) ==
    /\ \E k \in 1 .. Len(l.decls) : l.decls[k].name = "g" /\ l.decls[k].calls = <<"f">>
    /\ \E k \in 1 .. Len(a.decls) : a.decls[k].name = "f" /\ a.decls[k].calls = <<"g">>

Directory(source, disabled, app, lib, lib2) ==
    [source |-> source, disabled |-> disabled,
     text |-> [p \in MCFile |-> CASE p = "app" -> app [] p = "lib" -> lib [] p = "lib2" -> lib2]]

MCInputs ==
    { Directory("app", FALSE, x[1], x[2], x[3]) :
        x \in {y \in Apps \X Libs \X Seconds : ~Recursive(y[1], y[2])} }
    \cup { Directory("lib", disabled, CHOOSE a \in Apps : TRUE, l, Without("missing")) :
             disabled \in BOOLEAN, l \in {Without("missing"), Without("unreadable"),
                                          Readable(1, TRUE, <<Fn("main", 1, 2, TRUE, <<>>)>>, <<>>)} }

=============================================================================
