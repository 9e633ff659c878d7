----------------------------- MODULE MCFileTools -----------------------------
(* A small tree and the command lines over it for checking FileTools. *)
EXTENDS FileTools

CONSTANTS a, b, x  \* names, and a content

MCNames == {a, b}

\* /a holds a file and an empty directory, /b an empty file and a device.
MCTree ==
    [p \in {<<>>, <<a>>, <<a, a>>, <<a, b>>, <<b>>, <<b, a>>, <<b, b>>} |->
       [kind |-> CASE p \in {<<a, a>>, <<b, a>>} -> "file" [] p = <<b, b>> -> "null" [] OTHER -> "dir",
        data |-> IF p = <<a, a>> THEN x ELSE NoBytes]]

Line(tool, recursive, operands) ==
    [tool |-> tool, recursive |-> recursive, force |-> FALSE, operands |-> operands]
Named(p) == [path |-> p, named |-> TRUE]
Slash(p) == [path |-> p, named |-> FALSE]

Short == {<<a>>, <<b>>, <<a, a>>, <<a, b>>, <<b, a>>, <<b, b>>}
Two == {<<p, q>> : p, q \in Short}

MCCommands ==
    {Line(tool, deep, <<Named(p)>>) :
       tool \in {"mkdir", "rm", "touch"}, deep \in BOOLEAN, p \in Short \cup {<<a, b, a>>, <<>>}}
    \cup {Line(tool, TRUE, <<Named(o[1]), Named(o[2])>>) : tool \in {"mv", "cp"}, o \in Two}
    \cup {Line("mv", FALSE, <<Slash(<<a>>), Named(<<b>>)>>),
          Line("mv", FALSE, <<Named(<<a, a>>), Named(<<b, a>>), Named(<<a, b>>)>>),
          Line("mv", FALSE, <<Named(<<a>>), Named(<<b, a>>), Named(<<b>>)>>),
          Line("cp", FALSE, <<Named(<<a>>), Named(<<a, a>>), Named(<<b>>)>>),
          Line("cp", TRUE, <<Slash(<<a>>), Named(<<b>>)>>),
          Line("cp", TRUE, <<Named(<<a>>), Named(<<b>>), Named(<<a, b>>)>>),
          Line("cp", TRUE, <<Named(<<a>>), Named(<<b>>), Named(<<b, a>>)>>),
          Line("rm", TRUE, <<Named(<<a>>), Named(<<a, a>>), Named(<<b>>)>>),
          [Line("rm", FALSE, <<Named(<<a>>), Named(<<b, a>>)>>) EXCEPT !.force = TRUE]}
=============================================================================
