---------------------------- MODULE MCFileExtract ----------------------------
(* FileExtract for TLC: entries of at most three blocks, with and without   *)
(* gaps, that fill the buffer, just fill it, or are larger than it is.      *)
EXTENDS FileExtract, FiniteSets

\* The gap before a block, and its size; the buffer has room for three bytes.
Steps == {<<0, 0>>, <<0, 1>>, <<0, 2>>, <<0, 4>>, <<1, 2>>, <<1, 4>>}

End(e) == IF e = <<>> THEN 0 ELSE e[Len(e)].offset + e[Len(e)].size

Longer(es) == {Append(e, [offset |-> End(e) + s[1], size |-> s[2]]) : e \in es, s \in Steps}

One   == Longer({<<>>})
Two   == Longer(One)
Three == Longer(Two)

ArchivesDef == {<<e>> : e \in Three} \cup {<<e, f>> : e \in Two, f \in One \cup {<<>>}}

LoggedErrors == {"WARN", "FATAL"}
AllErrors    == {"WARN", "FAILED", "FATAL"}
==============================================================================
