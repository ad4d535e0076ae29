----------------------------- MODULE PathSafety -----------------------------
(***************************************************************************)
(* The containment guard of the tools that take a path.  A path is written *)
(* as names that follow a base: the root of the file system, the current   *)
(* directory or the home directory.  It resolves to a sequence of names    *)
(* from the root, with every ".." and every symbolic link replaced.  The   *)
(* tools make neither directories nor links, so both are constants.        *)
(***************************************************************************)
EXTENDS Sequences, SequencesExt

CONSTANTS
  Bases,        \* what the three bases stand for, resolved
  Directories,  \* resolved
  Links,        \* the target of each link, resolved
  Roots,        \* the allowed roots, as they are written in the configuration
  Paths         \* the paths that calls may name

ASSUME PathAssumption ==
  /\ <<>> \in Directories
  /\ \A base \in DOMAIN Bases : Bases[base] \in Directories
  /\ \A link \in DOMAIN Links : link \notin Directories /\ Front(link) \in Directories

Path(base, names) == [base |-> base, names |-> names]

\* One more name on the way: ".." leaves the directory that was reached, not
\* the one that was written.
Follow(at, name) ==
  IF name = ".." THEN IF at = <<>> THEN <<>> ELSE Front(at)
  ELSE LET next == Append(at, name) IN IF next \in DOMAIN Links THEN Links[next] ELSE next

ResolvePath(path) == FoldLeft(Follow, Bases[path.base], path.names)

\* Mutant: the path is compared as it is written.
WrittenWithinRoot(path, root) ==
  IsPrefix(ResolvePath(root), Bases[path.base] \o path.names)

\* Containment is a matter of whole names: /worker is not inside /work.
IsWithinRoot(path, root) == IsPrefix(ResolvePath(root), ResolvePath(path))

\* What ensure_within returns for some paths: no root admits nothing.
EnsureWithin(paths) ==
  {ResolvePath(path) : path \in {p \in paths : \E root \in Roots : IsWithinRoot(p, root)}}
=============================================================================
