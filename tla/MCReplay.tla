------------------------------ MODULE MCReplay ------------------------------
(***************************************************************************)
(* A small instance of Readers: a directory d that may become a file, a     *)
(* file in it, an escaping link; two modes, one result that redaction      *)
(* alters and one signature.  What is asked and answered names contents:   *)
(* one that is captured, with a wrong size or the right one; one that is   *)
(* JSON and names others in turn; one that is gone.                        *)
(***************************************************************************)
EXTENDS Readers

MCPaths == {"d", "d/f"}
MCAncestors == [p \in MCPaths |-> IF p = "d/f" THEN {"d"} ELSE {}]

File(content, mode_) == [kind |-> "file", content |-> content, mode |-> mode_]
Link == [kind |-> "symlink", content |-> "out", mode |-> "rwx"]
MCEntries == {File("one", "rw"), File("one", "rx"), File("two", "rw"), Link}

MCInitials == {[p \in MCPaths |-> IF p = "d" THEN Directory ELSE File("one", "rw")]}
MCChanges ==
  {Put("d/f", File("one", "rw")), Put("d/f", File("one", "rx")),
   Put("d", File("two", "rw")), Put("d", Link), Remove("d")}

MCResults == {"secret", "redacted"}
MCRedacted == [r \in MCResults |-> "redacted"]
MCDamageSets == {{}, {"one"}}
NoMentions == [d \in {"ask"} \cup MCResults |-> << >>]

Unredacted == [r \in {"answer"} |-> r]
FewerChanges == {Put("d/f", File("two", "rw")), Remove("d")}
MoreRequests == {"ask", "ask wrongly", "ask for the gone"}
Bytes(content) == [content |-> content, sized |-> TRUE, json |-> FALSE]
Json(content) == [content |-> content, sized |-> TRUE, json |-> TRUE]
Wrongly(content) == [content |-> content, sized |-> FALSE, json |-> FALSE]
MCMentions ==
  [d \in MoreRequests \cup {"answer", "doc"} |->
     CASE d = "ask" -> <<Json("doc"), Bytes("two")>>
       [] d = "ask wrongly" -> <<Wrongly("one")>>
       [] d = "ask for the gone" -> <<Json("two"), Bytes("gone")>>
       [] d = "answer" -> <<Wrongly("two")>>
       [] d = "doc" -> <<Wrongly("two"), Bytes("one")>>
       [] OTHER -> << >>]
MCLosses == {{}, {"one"}, {"doc"}}
=============================================================================
