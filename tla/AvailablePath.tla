---------------------------- MODULE AvailablePath ----------------------------
(***************************************************************************)
(* The names that uploads get: FileCoreService.get_available_path and the  *)
(* two calls of it that an upload makes.  Requests come one at a time and  *)
(* find the worker idle, so that what is left to go wrong is the choice of *)
(* the name.                                                               *)
(*                                                                         *)
(* The name "f (2) (1)" is the stem f with the tags <<2, 1>>.  An upload   *)
(* stands for its content, its file row and its blob row.  No stem ends in *)
(* another one (the pattern is not tied to the beginning of a name, so that*)
(* the copies of such a stem would be counted as well).                    *)
(***************************************************************************)
EXTENDS Naturals, Sequences, FiniteSets

CONSTANTS
    Uploads,   \* the uploads users make
    Dirs,      \* folders of the namespace
    Stems,     \* stems without tags
    Literal,   \* the stems that, read as a regular expression, match themselves
    AskedTags, \* the tags of the names users ask for
    NoFile

ASSUME StemsAssumption == Literal \subseteq Stems
ASSUME TagsAssumption  == AskedTags \subseteq Seq(Nat)
ASSUME UploadsAssumption == IsFiniteSet(Uploads)

NamedPath == [dir : Dirs, stem : Stems, tags : Seq(Nat)]

ASSUME NoFileAssumption == NoFile \notin NamedPath \cup Uploads

VARIABLES
    file,      \* file[u]: the path of the file that upload u made
    content,   \* content[u]: the upload whose bytes are under the key of u's file
    plain      \* users have only uploaded so far, and under plain names

nameVars == <<file, content, plain>>

NamesInit ==
    /\ file = [u \in Uploads |-> NoFile]
    /\ content = [u \in Uploads |-> NoFile]
    /\ plain = TRUE

\* exists_at_path
Taken(p) == \E u \in Uploads : file[u] = p

\* The numbered copies of a stem, in whatever folder they are.
Copies(s) == {u \in Uploads : /\ file[u] # NoFile
                              /\ file[u].stem = s
                              /\ Len(file[u].tags) = 1}

\* A name without tags whose stem the pattern matches.
PlainName(p) == p.tags = <<>> /\ p.stem \in Literal

\* Mutant of Counted: the count skips the copy numbered 1.
CountedFromTwo(p) ==
    IF PlainName(p)
    THEN Cardinality({u \in Copies(p.stem) : file[u].tags # <<1>>}) ELSE 0

\* count_by_path_pattern of `{stem} \(\d+\){suffix}$`: the stem is not quoted,
\* so that the parentheses of a tag are a group and match no parenthesis, and
\* the pattern is not tied to a folder.
Counted(p) ==
    IF PlainName(p) THEN Cardinality(Copies(p.stem)) ELSE 0

\* Mutant of GetAvailablePath: the number is the count itself.
CountAsNumber(p) ==
    IF Taken(p) THEN [p EXCEPT !.tags = Append(@, Counted(p))] ELSE p

GetAvailablePath(p) ==
    IF Taken(p) THEN [p EXCEPT !.tags = Append(@, Counted(p) + 1)] ELSE p

\* Mutant of CreatedAt: the first answer is used.
CreatedAtFirst(p) == GetAvailablePath(p)

\* FileService.create_file asks for a name, and FileCoreService.create_file
\* asks once more with the answer.
CreatedAt(p) == GetAvailablePath(GetAvailablePath(p))

\* The bytes are stored under the key of the chosen path; when a blob row has
\* the key already, the upload then fails and the bytes stay.
CreateFile(u, p) ==
    /\ file[u] = NoFile /\ \A v \in Uploads : content[v] # u
    /\ \/ /\ ~Taken(CreatedAt(p))
          /\ file' = [file EXCEPT ![u] = CreatedAt(p)]
          /\ content' = [content EXCEPT ![u] = u]
       \/ \E v \in Uploads :
            /\ file[v] = CreatedAt(p)
            /\ content' = [content EXCEPT ![v] = u]
            /\ UNCHANGED file
    /\ plain' = (plain /\ PlainName(p))

\* FileCoreService.delete, and its job.
DeleteFile(u) ==
    /\ file[u] # NoFile
    /\ file' = [file EXCEPT ![u] = NoFile]
    /\ content' = [content EXCEPT ![u] = NoFile]
    /\ plain' = FALSE

\* FileCoreService.move to a free path, and its job.
MoveFile(u, p) ==
    /\ file[u] # NoFile
    /\ ~Taken(p)
    /\ file' = [file EXCEPT ![u] = p]
    /\ plain' = FALSE
    /\ UNCHANGED content

AskedPath == [dir : Dirs, stem : Stems, tags : AskedTags]

NamesNext ==
    \/ \E u \in Uploads, p \in AskedPath : CreateFile(u, p)
    \/ \E u \in Uploads : DeleteFile(u)
    \/ \E u \in Uploads, p \in AskedPath : MoveFile(u, p)

NamesSpec == NamesInit /\ [][NamesNext]_nameVars

-----------------------------------------------------------------------------

\* An upload can only replace the content of a file with at least two tags, one
\* for each answer of get_available_path; a file under a plain name or with one
\* number is safe.
OnlySecondGuessesCollide ==
    [][\A u \in Uploads : file'[u] # NoFile /\ content'[u] # content[u] =>
          content'[u] = u \/ Len(file[u].tags) >= 2]_nameVars

\* An upload never replaces the content of another file, since the path it is
\* given is free: what the docstrings of create_file and get_available_path say.
ContentKept == \A u \in Uploads : file[u] # NoFile => content[u] = u

\* It is so until the first deletion, move or upload under a name that is not
\* plain (get_available_path, BlobService.create).
PlainContentKept == plain => ContentKept

\* Till then the numbers of a stem's copies are 1, 2, ... without gaps, one copy
\* each, across all folders (count_by_path_pattern is not tied to a folder).
PlainCopiesSequential ==
    plain => \A s \in Stems :
        /\ {file[u].tags[1] : u \in Copies(s)} = 1..Cardinality(Copies(s))
        /\ \A u \in Uploads : file[u] # NoFile /\ file[u].stem = s =>
              Len(file[u].tags) <= 1
=============================================================================
