------------------------------- MODULE Paths -------------------------------
(***************************************************************************)
(* The path functions of src/src/VirtualMachineUtils.c, character by       *)
(* character, used by a caller that keeps an absolute path.  Nothing else  *)
(* in the repository calls them.  The reference they are checked against   *)
(* knows only the names between the delimiters.                            *)
(*                                                                         *)
(* A path is a sequence of characters; VMStringCopy and VMStringLength are *)
(* plain sequence operations.                                              *)
(***************************************************************************)
EXTENDS Integers, FiniteSets, Sequences, SequencesExt

CONSTANTS
    Chars,     \* bound: the characters of a path
    MaxPath,   \* VM_FILE_SYSTEM_MAX_PATH
    MaxDest    \* bound: length of a path the caller is given

ASSUME PathBounds == {"/", "."} \subseteq Chars /\ MaxPath \in Nat \ {0} /\ MaxDest \in Nat

Delimiter == "/"
Invalid == {"\\", "?", "*", "<", ">", "|"}

VARIABLES
    path,     \* the path the caller keeps
    was,      \* the one before
    dest,     \* what it has been given
    answer    \* "asked" until the call has returned, then its status

pathVars == <<path, was, dest, answer>>

Success(p) == [ok |-> TRUE, path |-> p]
Failure == [ok |-> FALSE, path |-> <<>>]

-----------------------------------------------------------------------------
(* The functions.                                                          *)

VMFileSystemValidPathName(name) == \A i \in DOMAIN name : name[i] \notin Invalid

VMFileSystemIsAbsolutePath(name) == name # <<>> /\ Head(name) = Delimiter
VMFileSystemIsRelativePath(name) == ~VMFileSystemIsAbsolutePath(name)

EndsOpen(p) == p = <<>> \/ Last(p) # Delimiter

\* The pieces of a path, each with the delimiter behind it.
Pieces(p) ==
    FoldLeft(LAMBDA ps, c : IF ps = <<>> \/ ~EndsOpen(Last(ps)) THEN Append(ps, <<c>>)
                            ELSE Append(Front(ps), Append(Last(ps), c)),
             <<>>, p)

\* Position of the last delimiter, 0 for none.
LastDelimiter(p) == SelectLastInSeq(p, LAMBDA c : c = Delimiter)

\* An entry, or only its delimiter, leaves the end of the path; the root cannot.  Not:
\* what is behind the last delimiter.
UpToSlash(p) == IF p \in {<<>>, <<Delimiter>>} THEN Failure
                ELSE Success(SubSeq(p, 1, LastDelimiter(p)))
Up(p) ==
    IF p \in {<<>>, <<Delimiter>>} THEN Failure
    ELSE LET open == IF EndsOpen(p) THEN p ELSE Front(p)
         IN Success(SubSeq(open, 1, LastDelimiter(open)))

Add(p, piece) ==
    LET longer == (IF EndsOpen(p) THEN Append(p, Delimiter) ELSE p) \o piece
    IN IF Len(longer) > MaxPath THEN Failure ELSE Success(longer)

Follow(s, piece) ==
    CASE ~s.ok -> s
      [] s.ok /\ piece \in {<<".", ".">>, <<".", ".", "/">>} -> Up(s.path)
      [] s.ok /\ piece \in {<<".">>, <<".", "/">>} -> s
      [] OTHER -> Add(s.path, piece)

Closed(p) == IF Len(p) > 1 /\ ~EndsOpen(p) THEN Front(p) ELSE p

VMFileSystemSimplifyPath(abspath, relpath) ==
    IF ~VMFileSystemIsRelativePath(relpath) \/ ~VMFileSystemIsAbsolutePath(abspath)
       \/ Len(abspath) > MaxPath
    THEN Failure
    ELSE LET s == FoldLeft(Follow, Success(abspath), Pieces(relpath))
         IN IF s.ok THEN Success(Closed(s.path)) ELSE Failure

\* An absolute path is taken as it is.
VMFileSystemGetAbsolutePath(curpath, destpath) ==
    IF VMFileSystemIsAbsolutePath(destpath) THEN Success(destpath)
    ELSE VMFileSystemSimplifyPath(curpath, destpath)

Count(p, from) == Len(SelectSeq(SubSeq(p, from, Len(p)), LAMBDA c : c = Delimiter))

\* Directories of base below the place where the paths part: one begins behind each
\* delimiter, if anything is there; not: each delimiter is one.
UpDelimiters(base, d) == Count(base, d + 1)
UpDirectories(base, d) ==
    Cardinality({i \in d + 1 .. Len(base) : base[i - 1] = Delimiter})

Steps(n) == FlattenSeq([i \in 1 .. n |-> <<".", ".", "/">>])

\* Steps(n) and what is left of the destination, without its first delimiter.
Relative(n, rest) ==
    LET tail == IF VMFileSystemIsAbsolutePath(rest) THEN Tail(rest) ELSE rest
    IN IF 3 * n >= MaxPath \/ Len(tail) + 3 * n >= MaxPath THEN Failure
       ELSE Success((IF n = 0 THEN <<".", "/">> ELSE Steps(n)) \o tail)

From(p, i) == SubSeq(p, i, Len(p))

VMFileSystemRelativePath(basepath, destpath) ==
    LET common == Len(LongestCommonPrefix({basepath, destpath}))
        d == LastDelimiter(SubSeq(basepath, 1, common))
        within == common = Len(basepath)
                  /\ (common = Len(destpath) \/ destpath[common + 1] = Delimiter)
    IN CASE within -> Relative(0, From(destpath, common + 1))
         [] ~within /\ d > 0 -> Relative(UpDirectories(basepath, d), From(destpath, d))
         [] ~within /\ d = 0 /\ VMFileSystemIsAbsolutePath(destpath) -> Failure
         [] OTHER -> Relative(IF destpath = <<>> THEN 0 ELSE 1 + Count(basepath, 1), destpath)

VMFileSystemPathIsOnMount(mntpt, destpath) ==
    LET rel == VMFileSystemRelativePath(mntpt, destpath).path
    IN ~(Len(rel) >= 2 /\ rel[1] = "." /\ rel[2] = "."
         /\ (Len(rel) = 2 \/ rel[3] = Delimiter))

VMFileSystemDirectoryFromFullPath(p) ==
    LET d == LastDelimiter(p)
    IN IF d > MaxPath THEN Failure
       ELSE Success(IF d = 1 THEN <<Delimiter>> ELSE SubSeq(p, 1, d - 1))

VMFileSystemFileFromFullPath(p) ==
    LET name == From(p, LastDelimiter(p) + 1)
    IN IF Len(name) >= MaxPath THEN Failure ELSE Success(name)

VMFileSystemConsolidatePath(dirname, filename) ==
    LET dir == IF EndsOpen(dirname) THEN Append(dirname, Delimiter) ELSE dirname
    IN IF Len(dirname) >= MaxPath \/ Len(dir) + Len(filename) >= MaxPath THEN Failure
       ELSE Success(dir \o filename)

-----------------------------------------------------------------------------
(* The caller.                                                             *)

Given == {d \in UNION {[1 .. n -> Chars] : n \in 0 .. MaxDest} : VMFileSystemValidPathName(d)}

PathsInit == path = <<Delimiter>> /\ was = path /\ dest = <<>> /\ answer = "ok"

\* The caller is given another path.
Hear ==
    /\ answer # "asked" /\ answer' = "asked"
    /\ dest' \in Given /\ was' = path
    /\ UNCHANGED path

Takes(result) ==
    /\ answer = "asked" /\ answer' = IF result.ok THEN "ok" ELSE "failed"
    /\ path' = IF result.ok THEN result.path ELSE path
    /\ dest' = <<>> /\ UNCHANGED was

\* It goes where that leads.
Go == Takes(VMFileSystemGetAbsolutePath(path, dest))

\* It replaces the last name of its path by the last one of that path.
Beside ==
    LET dir == VMFileSystemDirectoryFromFullPath(path)
        name == VMFileSystemFileFromFullPath(dest)
    IN Takes(IF dir.ok /\ name.ok THEN VMFileSystemConsolidatePath(dir.path, name.path) ELSE Failure)

PathsNext == Hear \/ Go \/ Beside

PathsSpec == PathsInit /\ [][PathsNext]_pathVars

-----------------------------------------------------------------------------
(* Properties.                                                             *)

\* The names of a path.
Names(p) ==
    SelectSeq([i \in DOMAIN Pieces(p) |-> IF EndsOpen(Pieces(p)[i]) THEN Pieces(p)[i]
                                          ELSE Front(Pieces(p)[i])],
              LAMBDA n : n # <<>>)

Dots == {<<".">>, <<".", ".">>}
NoGap(p) == \A i \in 1 .. Len(p) - 1 : ~(p[i] = Delimiter /\ p[i + 1] = Delimiter)

\* An absolute path without dots, gaps and a last delimiter; absolute paths that
\* are given may be others, and are kept as they are.
Tidy(p) ==
    /\ VMFileSystemIsAbsolutePath(p) /\ NoGap(p)
    /\ p = Closed(p) /\ ToSet(Names(p)) \cap Dots = {}

\* The reference: where names lead from a directory, FALSE in ok above the root.
Resolve(dir, names) ==
    FoldLeft(LAMBDA s, n :
                 IF n = <<".">> \/ ~s.ok THEN s
                 ELSE IF n # <<".", ".">> THEN [s EXCEPT !.path = Append(@, n)]
                 ELSE IF s.path = <<>> THEN Failure ELSE [s EXCEPT !.path = Front(@)],
             Success(dir), names)

\* A relative path leads from a tidy one to the tidy one that the reference says
\* (VirtualMachineUtils.c:127-136, 231-307): an error means that the way goes above
\* the root, or that path and destination together are too long.  Nothing that is
\* answered is longer than MaxPath.
LeadsThere ==
    LET there == Resolve(Names(path), Names(dest))
    IN answer = "asked" /\ Tidy(path) /\ NoGap(dest) /\ VMFileSystemIsRelativePath(dest) /\ Go =>
           IF answer' = "ok" THEN /\ there.ok /\ Tidy(path') /\ Names(path') = there.path
                           /\ Len(path') <= MaxPath
           ELSE ~there.ok \/ Len(path) + 1 + Len(dest) > MaxPath

WalksRight == [][LeadsThere]_pathVars

\* Between tidy paths the relative path leads back, if there is room for it, and the
\* mount test says whether one is above the other (VirtualMachineUtils.c:138-149,
\* 309-374).
WayBack ==
    Tidy(path) /\ Tidy(was) =>
        LET rel == VMFileSystemRelativePath(path, was)
            back == VMFileSystemSimplifyPath(path, rel.path)
        IN rel.ok => /\ back.ok => back.path = was
                     /\ ~back.ok => Len(path) + 1 + Len(rel.path) > MaxPath
                     /\ VMFileSystemPathIsOnMount(path, was) <=> IsPrefix(Names(path), Names(was))
=============================================================================
