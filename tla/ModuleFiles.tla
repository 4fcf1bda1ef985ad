----------------------------- MODULE ModuleFiles -----------------------------
(***************************************************************************)
(* The manifest of a module and the files it may use (wyrd-wasm,           *)
(* modules/manifest.rs, and host_read_file and its kin of                  *)
(* modules/wasm/host_api.rs).  The manifest is looked up in several        *)
(* directories; its capabilities decide on paths that are resolved in a    *)
(* file system with links, which changes between the check, the look at    *)
(* the file and its opening.                                               *)
(***************************************************************************)
EXTENDS Naturals, Sequences, FiniteSets, SequencesExt

CONSTANTS
    Grants,      \* the sets of capabilities a manifest may declare
    Asked,       \* the paths the guest asks for
    MaxChanges   \* bound on the changes of the file system

\* A path is a sequence of names, absolute from here on; a relative one starts with Here.
Here == "."
Up == ".."
Runtime == <<"in">>   \* the runtime directory
Temp == <<"tmp">>     \* wyrd below the directory for temporary files
Sensitive == {<<"etc">>}

Node(kind, to) == [kind |-> kind, to |-> to]
Absent == Node("absent", <<>>)
Dir == Node("dir", <<>>)
File == Node("file", <<>>)
Large == Node("large", <<>>)
Pipe == Node("pipe", <<>>)
Link(to) == Node("link", to)

\* What may be at /in/x, while the rest stays as it is.
Changeable == {Absent, File, Large, Dir, Pipe, Link(<<"etc", "x">>), Link(<<"etc">>),
               Link(<<"in", "x">>), Link(<<"tmp", "x">>), Link(<<"etc", "z">>)}
Tree(x) ==
    [ p \in {<<>>, <<"in">>, <<"etc">>, <<"tmp">>} |-> Dir ]
    @@ [ p \in {<<"etc", "x">>, <<"tmp", "x">>} |-> File ]
    @@ [ p \in {<<"in", "x">>} |-> x ]
    @@ [ p \in {<<"in", "x", "x">>} |-> IF x = Dir THEN File ELSE Absent ]

VARIABLES
    tree,          \* canonical path -> what is there
    changes,       \* of the file system so far
    candidates,    \* the manifest files in the order of the lookup: absent, broken, or good
    declared,      \* what the good ones declare
    capabilities,  \* of the module that runs
    step,          \* where a call of host_read_file stands
    path,          \* the path it works on
    opened,        \* the file it has opened: canonical path and kind
    got,           \* the file whose content the last call gave the guest
    raced,         \* history: the file system changed since the check
    watched        \* canonical path of the watch the last call was allowed

fileVars == <<tree, changes, candidates, declared, capabilities, step, path, opened, got,
              raced, watched>>

Nowhere == <<"nowhere">>
Nothing == [at |-> Nowhere, kind |-> "absent"]

Kind(p) == IF p \in DOMAIN tree THEN tree[p].kind ELSE "absent"

-----------------------------------------------------------------------------
(* Paths *)

\* Where a path leads, links followed; Nowhere if a part of it is missing.
RECURSIVE Walk(_, _, _)
Walk(at, rest, links) ==
    IF rest = <<>> THEN at
    ELSE LET next == Append(at, Head(rest))
         IN  CASE Kind(next) = "absent" -> Nowhere
               [] Kind(next) = "link" ->
                    IF links = 0 THEN Nowhere
                    ELSE Walk(<<>>, tree[next].to \o Tail(rest), links - 1)
               [] OTHER -> Walk(next, Tail(rest), links)

canonicalize(p) == Walk(<<>>, p, 2)

\* The entry itself: its directory resolved, its own link not followed.
Entry(p) == IF p = <<>> THEN p
            ELSE LET dir == canonicalize(Front(p))
                 IN  IF dir = Nowhere THEN Nowhere ELSE Append(dir, Last(p))
LstatKind(p) == IF Entry(p) = Nowhere THEN "absent" ELSE Kind(Entry(p))

IsAbsolute(p) == p = <<>> \/ Head(p) # Here
HasParentDir(p) == \E i \in DOMAIN p : p[i] = Up

\* The longest part of the path that is there is resolved, the rest added as it is.
canonicalize_path_or_parent(p) ==
    LET there == CHOOSE k \in 0 .. Len(p) :
                     /\ LstatKind(SubSeq(p, 1, k)) # "absent"
                     /\ \A j \in k + 1 .. Len(p) : LstatKind(SubSeq(p, 1, j)) = "absent"
        resolved == canonicalize(SubSeq(p, 1, there))
    IN  IF ~IsAbsolute(p) \/ resolved = Nowhere THEN Nowhere
        ELSE resolved \o SubSeq(p, there + 1, Len(p))

\* Mutant: the names are compared.
within_by_name(candidate, prefix) == IsAbsolute(candidate) /\ IsPrefix(prefix, candidate)

path_is_within(candidate, prefix) ==
    LET c == canonicalize_path_or_parent(candidate)
        p == canonicalize_path_or_parent(prefix)
    IN  c # Nowhere /\ p # Nowhere /\ IsPrefix(p, c)

\* A relative path is looked for in the runtime directory, then in the temporary one.
effective_read_path(p) ==
    IF IsAbsolute(p) THEN p
    ELSE LET runtime == Runtime \o Tail(p)
             temp == Temp \o Tail(p)
         IN  IF canonicalize(runtime) = Nowhere /\ canonicalize(temp) # Nowhere
             THEN temp ELSE runtime

-----------------------------------------------------------------------------
(* Capabilities: <<"fs:read", path>> and <<"fs:watch", path>> are for what is below a    *)
(* path, <<"*">>, <<"fs:read">> and <<"fs:watch">> as they stand                          *)

\* from_toml_str leaves out what would allow to write.
Kept(caps) == {c \in caps : Head(c) # "fs:write"}

can_read_path(p) ==
    /\ ~HasParentDir(p)
    /\ \E c \in capabilities :
           \/ c \in {<<"*">>, <<"fs:read">>}
           \/ /\ Len(c) = 2 /\ c[1] = "fs:read"
              /\ ~HasParentDir(c[2]) /\ path_is_within(p, c[2])

can_write_path(p) ==
    /\ ~HasParentDir(p)
    /\ \E c \in capabilities :
           \/ c = <<"fs:write">>
           \/ Len(c) = 2 /\ c[1] = "fs:write" /\ ~HasParentDir(c[2]) /\ path_is_within(p, c[2])

IsSensitive(p) == \E s \in Sensitive : IsPrefix(s, p)

can_watch_path(p) ==
    LET canon == canonicalize_path_or_parent(p)
    IN  /\ p # <<>> /\ ~HasParentDir(p) /\ ~IsSensitive(p)
        /\ canon # <<>> /\ ~IsSensitive(canon)
        /\ \E c \in capabilities :
               \/ c = <<"fs:watch">> /\ path_is_within(p, Runtime)
               \/ /\ Len(c) = 2 /\ c[1] = "fs:watch"
                  /\ IsAbsolute(c[2]) /\ ~HasParentDir(c[2])
                  /\ c[2] # <<>> /\ ~IsSensitive(c[2])
                  /\ path_is_within(p, c[2])

\* find_module_binary: the first directory that has the file itself, or by a link a file
\* below it.
Binary(dir) ==
    LET d == canonicalize(dir)
        f == canonicalize(Append(dir, "x"))
    IN  IF d # Nowhere /\ f # Nowhere /\ IsPrefix(d, f) /\ Kind(f) \in {"file", "large"}
        THEN f ELSE Nowhere
find_module_binary(dirs) ==
    LET found == {i \in DOMAIN dirs : Binary(dirs[i]) # Nowhere}
    IN  IF found = {} THEN Nowhere
        ELSE Binary(dirs[CHOOSE i \in found : \A j \in found : i <= j])

-----------------------------------------------------------------------------

Init ==
    /\ \E x \in Changeable : tree = Tree(x)
    /\ changes = 0
    /\ candidates \in [1 .. 2 -> {"absent", "broken", "good"}]
    /\ declared \in Grants
    /\ capabilities = {}
    /\ step = "none"
    /\ path = <<>>
    /\ opened = Nothing /\ got = Nothing
    /\ raced = FALSE
    /\ watched = Nowhere

TypeOK ==
    /\ changes \in 0 .. MaxChanges
    /\ step \in {"none", "refused", "ready", "checked", "known", "opened"}
    /\ capabilities \subseteq UNION Grants

\* try_find_manifest takes the first file there is; a broken one is no reason to look
\* further, and without any the module runs with a manifest that allows nothing.
FindManifest ==
    /\ step = "none"
    /\ LET there == {i \in DOMAIN candidates : candidates[i] # "absent"}
           first == candidates[CHOOSE i \in there : \A j \in there : i <= j]
       IN  IF there = {} THEN capabilities' = {} /\ step' = "ready"
           ELSE IF first = "good" THEN capabilities' = Kept(declared) /\ step' = "ready"
           ELSE step' = "refused" /\ UNCHANGED capabilities
    /\ UNCHANGED <<tree, changes, candidates, declared, path, opened, got, raced, watched>>

\* host_read_file: the path as given, or the one it stands for, must be allowed.
ReadFile(p) ==
    /\ step = "ready"
    /\ LET effective == effective_read_path(p)
       IN  /\ can_read_path(p) \/ can_read_path(effective)
           /\ path' = effective
    /\ step' = "checked"
    /\ raced' = FALSE
    /\ opened' = Nothing /\ got' = Nothing /\ watched' = Nowhere
    /\ UNCHANGED <<tree, changes, candidates, declared, capabilities>>

LookAtFile ==
    /\ step = "checked"
    /\ step' = IF LstatKind(path) = "file" THEN "known" ELSE "ready"
    /\ UNCHANGED <<tree, changes, candidates, declared, capabilities, path, opened, got, raced,
                   watched>>

\* Without following a link in the last place, and without waiting for the other end of
\* a pipe.
OpenFile ==
    /\ step = "known"
    /\ IF LstatKind(path) \in {"absent", "link"}
       THEN step' = "ready" /\ UNCHANGED opened
       ELSE step' = "opened" /\ opened' = [at |-> Entry(path), kind |-> LstatKind(path)]
    /\ UNCHANGED <<tree, changes, candidates, declared, capabilities, path, got, raced, watched>>

\* A regular file that is not too large by now.
ReadContent ==
    /\ step = "opened"
    /\ step' = "ready"
    /\ got' = IF opened.kind = "file" THEN opened ELSE got
    /\ UNCHANGED <<tree, changes, candidates, declared, capabilities, path, opened, raced, watched>>

\* host_watch_path, where it is allowed.
Watch(p) ==
    /\ step = "ready"
    /\ can_watch_path(p)
    /\ watched' = canonicalize_path_or_parent(p)
    /\ got' = Nothing
    /\ raced' = FALSE
    /\ UNCHANGED <<tree, changes, candidates, declared, capabilities, step, path, opened>>

\* Somebody puts something else at /in/x.
Change(x) ==
    /\ changes < MaxChanges
    /\ tree[<<"in", "x">>] # x
    /\ changes' = changes + 1
    /\ tree' = Tree(x)
    /\ raced' = TRUE
    /\ UNCHANGED <<candidates, declared, capabilities, step, path, opened, got, watched>>

Next ==
    \/ FindManifest
    \/ \E p \in Asked : ReadFile(p) \/ Watch(p)
    \/ LookAtFile \/ OpenFile \/ ReadContent
    \/ \E x \in Changeable : Change(x)

Spec == Init /\ [][Next]_fileVars

-----------------------------------------------------------------------------
(* Properties *)

\* Whether a place is below a directory that the manifest opens for reading or watching.
Opens(what, place) ==
    \E c \in declared :
        /\ Len(c) = 2 /\ c[1] = what
        /\ IsPrefix(IF canonicalize(c[2]) = Nowhere THEN c[2] ELSE canonicalize(c[2]), place)

\* What a guest is given is the content of a regular file below a directory its manifest
\* opens, wherever links lead; not so if the file system changed between the check and
\* the opening.
ReadsStayInside ==
    got # Nothing =>
        /\ got.kind = "file"
        /\ raced \/ {<<"*">>, <<"fs:read">>} \cap declared # {} \/ Opens("fs:read", got.at)

\* A watch is on no sensitive place, and below a directory the manifest opens for it.
WatchesStayClear ==
    watched # Nowhere =>
        /\ ~IsSensitive(watched) /\ watched # <<>>
        /\ \/ raced \/ Opens("fs:watch", watched)
           \/ <<"fs:watch">> \in declared /\ IsPrefix(Runtime, watched)

\* No manifest allows to write.
NobodyWrites == \A p \in Asked : ~can_write_path(p)

\* The program of a module is a file below a directory modules are looked for in.
BinariesStayInside ==
    LET found == find_module_binary(<<<<"in">>, <<"tmp">>>>)
    IN  /\ found # Nowhere /\ Kind(found) \in {"file", "large"}
        /\ IsPrefix(<<"in">>, found) \/ IsPrefix(<<"tmp">>, found)

FilesAreSound == ReadsStayInside /\ WatchesStayClear /\ NobodyWrites /\ BinariesStayInside
=============================================================================
