-------------------------------- MODULE MCVfs --------------------------------
(* Small trees and mount tables for checking Vfs with TLC. *)
EXTENDS Vfs

CONSTANTS a, b  \* the names of the paths

MCNames == {a, b}

\* init() in small: a directory holding a device, as /dev, and another one.
MCInitTree ==
    [p \in {<<>>, <<a>>, <<a, a>>, <<a, b>>} |->
       CASE p = <<a, a>> -> Node("null", NoBytes)
         [] p = <<a, b>> -> Node("device", NoBytes)
         [] OTHER -> Dir]

\* One name, three levels: mounts inside mounts.
MCChainNames == {a}
MCChainTree == [p \in {<<>>, <<a>>} |-> Dir]
MCChainMounts == {<<a>>, <<a, a>>}
MCChainHostFiles == {<<>>, <<a>>}

MCNoMounts == {}
MCHostFiles == {<<>>, <<b>>}
=============================================================================
