------------------------------ MODULE CmdHash -------------------------------
(***************************************************************************)
(* Where a command is.  The shell remembers the file each name was found   *)
(* in, and the directories of $PATH it was found under; a changed $PATH is *)
(* noticed by comparing it, whenever one of the users of the cache asks.   *)
(* The shell hashes the name before it forks; the child looks the name up  *)
(* again, in its own copy of the cache, and files come and go meanwhile.   *)
(***************************************************************************)
EXTENDS Naturals, SequencesExt

CONSTANTS
  Commands, Dirs,
  Paths,        \* the values PATH is given, sequences of directories, or UnsetPath
  DefaultPath,  \* what confstr answers
  Kinds,        \* what there can be under a name: "none", "exec", "plain", "dir"
  HashEarly,    \* whether `hash name` is used when PATH has just changed
  Posix         \* set -o posix

VARIABLES
  files,          \* directory -> command -> what is there
  PATH,
  path_dirs_src,  \* the PATH the caches were made from, Never at first
  cmd_cache,      \* command -> the directory it was found in, or Miss
  starting,       \* the command that is being started, or None
  outcome         \* how the last start ended, until something else happens

vars == <<files, PATH, path_dirs_src, cmd_cache, starting, outcome>>

UnsetPath == <<"(unset)">>
Never == <<"(never)">>
Miss == "(miss)"
None == "(none)"
NotFound == "(not found)"
Denied == "(denied)"

PathDirs == IF PATH = UnsetPath THEN DefaultPath ELSE PATH

-----------------------------------------------------------------------------
(* Searches.  access(X_OK) is true of a directory as well.                 *)

Executable(d, c) == files[d][c] \in {"exec", "dir"}

(* The first file that may be run; perm_denied when there is a plain one.  *)
exe_path(dirs, c) ==
  LET i == SelectInSeq(dirs, LAMBDA d : files[d][c] = "exec")
  IN  IF i = 0 THEN Miss ELSE dirs[i]
perm_denied(dirs, c) == \E i \in DOMAIN dirs : files[dirs[i]][c] = "plain"

first_plain_file(dirs, c) ==
  LET i == SelectInSeq(dirs, LAMBDA d : files[d][c] \in {"exec", "plain"})
  IN  IF i = 0 THEN Miss ELSE dirs[i]

exe_path_preferred(dirs, c) ==
  IF exe_path(dirs, c) # Miss \/ ~perm_denied(dirs, c) \/ Posix THEN exe_path(dirs, c)
  ELSE first_plain_file(dirs, c)

-----------------------------------------------------------------------------
(* The cache: H.src and H.cache.                                           *)

Hash == [src |-> path_dirs_src, cache |-> cmd_cache]
Becomes(H) == path_dirs_src' = H.src /\ cmd_cache' = H.cache

cmd_hash_clear(H) == [H EXCEPT !.cache = [c \in Commands |-> Miss]]
cmd_hash_lookup(H, c) == H.cache[c]
cmd_hash_insert(H, c, d) == [H EXCEPT !.cache[c] = d]
cmd_hash_remove(H, c) == [H EXCEPT !.cache[c] = Miss]

(* Mutant: a change of PATH keeps the names.                               *)
path_cache_sync_kept(H) == [H EXCEPT !.src = PathDirs]

(* The names go when PATH is not what they were found under; at the first  *)
(* call there is nothing to compare with.                                  *)
path_cache_sync(H) ==
  LET forgotten == IF H.src = Never THEN H ELSE cmd_hash_clear(H)
  IN  IF H.src = PathDirs THEN H ELSE [forgotten EXCEPT !.src = PathDirs]

(* In the shell, before the fork: a remembered name is not looked at.      *)
prehash_external(H, c) ==
  LET S == path_cache_sync(H)
      d == exe_path(S.src, c)
  IN  IF cmd_hash_lookup(S, c) # Miss \/ d = Miss THEN S ELSE cmd_hash_insert(S, c, d)

search_path_dirs(H, c) ==
  LET d == exe_path(H.src, c)
  IN  IF d # Miss THEN d ELSE IF perm_denied(H.src, c) THEN Denied ELSE NotFound

(* Mutant: a remembered file is taken without a look.                      *)
handle_path_lookup_blind(H, c) ==
  LET S == path_cache_sync(H)
  IN  IF cmd_hash_lookup(S, c) # Miss THEN cmd_hash_lookup(S, c) ELSE search_path_dirs(S, c)

(* In the child: a remembered file that can no longer be run is searched   *)
(* for again.                                                              *)
handle_path_lookup(H, c) ==
  LET S == path_cache_sync(H)
      cached == cmd_hash_lookup(S, c)
  IN  IF cached # Miss /\ Executable(cached, c) THEN cached ELSE search_path_dirs(S, c)

(* `exec name`, in the shell itself.                                       *)
exec_lookup(H, c) ==
  LET S == path_cache_sync(H)
      hit == cmd_hash_lookup(S, c)
  IN  IF hit # Miss /\ Executable(hit, c) THEN hit ELSE exe_path_preferred(S.src, c)

(* Mutant: command -v trusts the names whatever PATH is.                   *)
command_v_lookup_stale(H, c) ==
  LET hit == cmd_hash_lookup(H, c)
  IN  IF hit # Miss /\ Executable(hit, c) THEN hit ELSE exe_path_preferred(PATH, c)

(* `command -v name` asks without changing anything.                       *)
command_v_lookup(H, c) ==
  LET hit == cmd_hash_lookup(H, c)
  IN  IF PATH = UnsetPath THEN Miss
      ELSE IF PATH = H.src /\ hit # Miss /\ Executable(hit, c) THEN hit
      ELSE exe_path_preferred(PATH, c)

-----------------------------------------------------------------------------
(* What happens.                                                           *)

Quiet == starting' = None /\ outcome' = Miss

SetPath(p) == /\ starting = None
              /\ PATH' = p
              /\ Quiet /\ UNCHANGED <<files, path_dirs_src, cmd_cache>>

(* `hash name` searches by itself, and asks nobody whether PATH changed.   *)
hash_add_from_path(c) ==
  /\ starting = None
  /\ HashEarly \/ PATH = path_dirs_src
  /\ PATH # UnsetPath
  /\ IF exe_path(PATH, c) = Miss THEN UNCHANGED <<path_dirs_src, cmd_cache>>
     ELSE Becomes(cmd_hash_insert(Hash, c, exe_path(PATH, c)))
  /\ Quiet /\ UNCHANGED <<files, PATH>>

handle_hash_flags(c) ==
  /\ starting = None
  /\ Becomes(cmd_hash_clear(Hash)) \/ Becomes(cmd_hash_remove(Hash, c))
  /\ Quiet /\ UNCHANGED <<files, PATH>>

(* A simple command: hashed here, found again in the child.                *)
Start(c) ==
  /\ starting = None
  /\ Becomes(prehash_external(Hash, c))
  /\ starting' = c /\ outcome' = Miss
  /\ UNCHANGED <<files, PATH>>

find_cmd_path ==
  /\ starting # None
  /\ outcome' = handle_path_lookup(Hash, starting)
  /\ UNCHANGED <<files, PATH, path_dirs_src, cmd_cache, starting>>

Reaped == /\ starting # None /\ outcome # Miss
          /\ Quiet /\ UNCHANGED <<files, PATH, path_dirs_src, cmd_cache>>

(* `exec name` that finds nothing, or cannot run it, leaves the shell.     *)
exec_failed(c) ==
  /\ starting = None
  /\ exec_lookup(Hash, c) \notin {d \in Dirs : files[d][c] = "exec"}
  /\ Becomes(path_cache_sync(Hash))
  /\ Quiet /\ UNCHANGED <<files, PATH>>

Installed(d, c, k) ==
  /\ files[d][c] # k
  /\ files' = [files EXCEPT ![d][c] = k]
  /\ outcome' = Miss
  /\ UNCHANGED <<PATH, path_dirs_src, cmd_cache, starting>>

Init == /\ files \in [Dirs -> [Commands -> Kinds]]
        /\ PATH \in Paths
        /\ path_dirs_src = Never
        /\ cmd_cache = [c \in Commands |-> Miss]
        /\ starting = None /\ outcome = Miss

Next == \/ \E p \in Paths : SetPath(p)
        \/ \E c \in Commands : \/ hash_add_from_path(c) \/ handle_hash_flags(c)
                               \/ Start(c) \/ exec_failed(c)
        \/ find_cmd_path \/ Reaped
        \/ \E d \in Dirs, c \in Commands, k \in Kinds : Installed(d, c, k)

Spec == Init /\ [][Next]_vars

-----------------------------------------------------------------------------
(* However PATH and the files changed since a name was remembered, what a  *)
(* command runs is a file that can be run in a directory of the PATH there *)
(* is now, and it is missed only when PATH has none (path_cache_sync,      *)
(* find_cmd_path2.c:34).  With HashEarly it is not so: the first use after *)
(* a change of PATH is then `hash name`, which files the name under the    *)
(* directories before; nor with directories that bear a command's name.    *)
RunsFromPath ==
  outcome # Miss =>
    LET can == {d \in Dirs : files[d][starting] = "exec" /\ Contains(PathDirs, d)}
    IN  IF outcome \in {NotFound, Denied} THEN can = {}
        ELSE outcome \in can

(* command -v names the very file the next run of the command would take,  *)
(* the default path aside, of which it says nothing (builtin_cmd3.c).      *)
CommandVTells ==
  \A c \in Commands :
    LET ran == handle_path_lookup(prehash_external(Hash, c), c)
    IN  ran \in Dirs /\ PATH # UnsetPath => command_v_lookup(Hash, c) = ran
=============================================================================
