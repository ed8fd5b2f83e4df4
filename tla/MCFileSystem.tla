---------------------------- MODULE MCFileSystem ----------------------------
(***************************************************************************)
(* The instance of FileSystem that TLC checks: "along" stands for a name   *)
(* of 32 characters or more, which create_node cuts to "a"; of the two     *)
(* texts one is longer; the stack of fs_init holds zeros, or an entry that *)
(* is in use.                                                              *)
(***************************************************************************)
EXTENDS FileSystem

MCNames == {"a", "along"}
MCStored == [name \in MCNames |-> "a"]
MCTexts == {"x", "yy"}
MCSize == [text \in MCTexts |-> IF text = "x" THEN 1 ELSE 2]

LeftOver == [name |-> "junk", type |-> "FS_FILE", parent |-> 2,
             data |-> [text |-> "junk", size |-> 2]]
MCJunk == {Unused, LeftOver}
Zeros == {Unused}

=============================================================================
