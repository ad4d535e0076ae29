----------------------------- MODULE FileTools -----------------------------
(***************************************************************************)
(* The tools that change files.  They do not await, so a call is a step; a *)
(* call that is refused or fails changes nothing and is left out.  A text  *)
(* is a sequence of words, and its size their number.                      *)
(***************************************************************************)
EXTENDS Integers, FiniteSets, PathSafety

CONSTANTS
  Words,
  MaxSize    \* write_max_bytes

ASSUME FileAssumption == MaxSize \in Nat

\* The places of files.
Places == {ResolvePath(p) : p \in Paths} \ Directories

VARIABLE files   \* of each place <<its text>>, or <<>> if no file is there

Texts == UNION {[1..n -> Words] : n \in 0..(MaxSize + 1)}

InitFiles == files \in [Places -> {<<>>} \cup {<<t>> : t \in Texts}]

IsFile(at) == at \notin Directories /\ files[at] # <<>>
Exists(at) == at \in Directories \/ files[at] # <<>>

Write(at, text) == files' = [files EXCEPT ![at] = <<text>>]

\* FileCreateTool.execute, at what ensure_within returned
Create(at, text, overwrite) ==
  /\ Exists(at) => overwrite /\ IsFile(at)
  /\ Front(at) \in Directories
  /\ Len(text) <= MaxSize
  /\ Write(at, text)

Occurrences(text, word) == {i \in 1..Len(text) : text[i] = word}

Replaced(text, old, new) ==
  FlattenSeq([i \in 1..Len(text) |-> IF text[i] = old THEN new ELSE <<text[i]>>])

\* FileEditTool.execute, at what ensure_within returned
Edit(at, old, new, all) ==
  /\ IsFile(at)
  /\ LET text == files[at][1]
         n == Cardinality(Occurrences(text, old))
     IN /\ Len(text) <= MaxSize
        /\ n = 1 \/ (n > 1 /\ all)
        /\ Len(Replaced(text, old, new)) <= MaxSize
        /\ Write(at, Replaced(text, old, new))

FileNext ==
  \E at \in EnsureWithin(Paths), text \in Texts, flag \in BOOLEAN :
    \/ Create(at, text, flag)
    \/ \E old \in Words : Edit(at, old, text, flag)

OutsideRoots == {at \in Places : \A root \in Roots : ~ IsPrefix(ResolvePath(root), at)}

\* Nothing a tool does touches a file outside the allowed roots, whatever
\* directories, links and ".." a path goes through, and however long after the
\* check of its place a download is saved.
ConfinedToRoots == [][\A at \in OutsideRoots : files'[at] = files[at]]_files
=============================================================================
