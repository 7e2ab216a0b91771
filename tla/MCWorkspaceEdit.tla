---------------------------- MODULE MCWorkspaceEdit ----------------------------
(* Instances of WorkspaceEdit for TLC. *)
EXTENDS WorkspaceEdit

CONSTANTS a, b, c, lib, new     \* names

FileText(id) == File(<<"old", id>>, <<-id>>)
Text(p) == [kind |-> "text", path |-> p]
Create(p, overwrite, ignore) ==
    [kind |-> "create", path |-> p, overwrite |-> overwrite, ignore |-> ignore]
Rename(p, to, overwrite, ignore) ==
    [kind |-> "rename", path |-> p, to |-> to, overwrite |-> overwrite, ignore |-> ignore]
Delete(p, recursive, ignore) ==
    [kind |-> "delete", path |-> p, recursive |-> recursive, ignore |-> ignore]

Texts(paths) == {Text(p) : p \in paths}
Creates(paths) ==
    {Create(p, o, i) : p \in paths, o \in BOOLEAN, i \in BOOLEAN} \ {Create(p, TRUE, TRUE) : p \in paths}
Renames(paths, overwrite) ==
    {Rename(p, q, o, FALSE) : p \in paths, q \in paths, o \in overwrite}
    \ {Rename(p, p, o, FALSE) : p \in paths, o \in overwrite}
Deletes(paths, recursive, ignore) == {Delete(p, r, i) : p \in paths, r \in recursive, i \in ignore}

Short == {<<a>>, <<b>>, <<c>>}

\* Files side by side.
Flat == <<a>> :> FileText(1) @@ <<b>> :> FileText(2)
FlatItems ==
    Texts(Short) \cup Creates({<<a>>, <<c>>}) \cup Renames(Short, BOOLEAN)
    \cup {Rename(<<a>>, <<b>>, FALSE, TRUE)} \cup Deletes(Short, {FALSE}, BOOLEAN)

\* A directory with two files in it, and a file beside it.
Nested == <<lib>> :> Dir @@ <<lib, a>> :> FileText(1) @@ <<lib, b>> :> FileText(2) @@ <<c>> :> FileText(3)
\* The directory moved whole, also after something was deleted inside it.
WholeItems ==
    Texts({<<lib, a>>, <<new, a>>, <<c>>})
    \cup {Rename(<<lib>>, <<new>>, FALSE, FALSE), Rename(<<new>>, <<lib>>, FALSE, FALSE),
          Rename(<<lib, a>>, <<lib, c>>, FALSE, FALSE), Rename(<<new, a>>, <<c>>, TRUE, FALSE),
          Rename(<<new, c>>, <<new, a>>, FALSE, FALSE), Create(<<c>>, TRUE, FALSE),
          Delete(<<lib, a>>, FALSE, FALSE), Delete(<<lib>>, TRUE, FALSE), Delete(<<new>>, FALSE, TRUE)}

\* Steps that make directories, with a file in the way of one.
ParentItems ==
    Texts({<<a>>, <<new, lib, a>>}) \cup
    {Create(<<new, c>>, FALSE, FALSE), Create(<<new, lib, a>>, TRUE, FALSE), Rename(<<a>>, <<new, lib, a>>, FALSE, FALSE),
     Rename(<<a>>, <<b, a>>, FALSE, FALSE), Delete(<<a>>, FALSE, FALSE), Delete(<<new, c>>, FALSE, FALSE),
     Rename(<<new, lib, a>>, <<b>>, TRUE, FALSE), Delete(<<new>>, TRUE, TRUE), Rename(<<new>>, <<c>>, FALSE, FALSE)}

\* A directory made on the way, emptied again, and renamed over.
EmptiedItems ==
    {Text(<<c>>), Text(<<new, c>>), Create(<<new, c>>, FALSE, TRUE), Rename(<<new, c>>, <<b>>, FALSE, FALSE),
     Rename(<<lib>>, <<new>>, FALSE, FALSE)}

FlatCase == [disk |-> Flat, items |-> FlatItems, max |-> 3]
AllCases ==
    {FlatCase, [disk |-> Nested, items |-> WholeItems, max |-> 4], [disk |-> Flat, items |-> ParentItems, max |-> 3],
     [disk |-> Nested, items |-> EmptiedItems, max |-> 4]}
FlatOnly == {FlatCase}
=============================================================================
