----------------------------- MODULE MCTables ------------------------------
(***************************************************************************)
(* The tables a session keeps, each in its own module and each checked for *)
(* itself: a behaviour is of one part, and the variables of the others     *)
(* stay Idle.                                                              *)
(***************************************************************************)
EXTENDS Naturals, Sequences

CONSTANTS
  VarNames, Values, Environs,  \* EnvTable: names, what they are given, inherited
  HashOf, MinCap, EnvMax,      \* EnvTable: hashes, room in the index, records
  Integers_, Refs, Chains, Directories,  \* EnvTable: declare -i, -n, -n of -n; cd
  Functions_, Files, Scripts, FramesShown, BodiesMax,       \* FuncTable
  Commands, Dirs, Paths, DefaultPath, Kinds,                \* CmdHash
  HashEarly, Posix,            \* CmdHash: `hash name` right after PATH; set -o posix
  Tree, Links, Fragile, Operands, Swaps, Assigned, HOME, CDPATH, Hooks,  \* Cwd
  Forked, LogicalReader, MaxStack,  \* Cwd: how lines are read; entries of pushd
  ArgLists, OptStrings, OptInds, Addrs,                     \* Getopts
  Liberties,                   \* Getopts: what scripts may do besides
  Roots, Trees, Unseen, GenMax,                             \* GitScan
  Updaters, Inodes             \* Update: shells that update; files

VARIABLES
  part,                        \* which table this behaviour is about
  env, index, var_attrs, told,
  functions, func_index, heap, dead_funcs, call_frames, setopt, cells,
  glob_cells, frames_dirty, funcname, asked, script,
  files, PATH, path_dirs_src, cmd_cache, starting, outcome,
  dirs, shell, dirstack, pushed, sent,
  args, optstring, OPTIND, getopts_ref, getopts_pos, saved, seen,
  where, tree, gen, untracked, cache, scan, excused,
  data, target, tmp, release, sums, elevated, at, writes, torn, began,
  said

EnvVars == <<env, index, var_attrs, told>>
FuncVars ==
  <<functions, func_index, heap, dead_funcs, call_frames, setopt, cells,
    glob_cells, frames_dirty, funcname, asked, script>>
HashVars == <<files, PATH, path_dirs_src, cmd_cache, starting, outcome>>
DirVars == <<dirs, shell, dirstack, pushed, sent>>
OptVars ==
  <<args, optstring, OPTIND, getopts_ref, getopts_pos, saved, seen>>
GitVars == <<where, tree, gen, untracked, cache, scan, excused>>
UpdVars ==
  <<data, target, tmp, release, sums, elevated, at, writes, torn, began,
    said>>
Parts == <<EnvVars, FuncVars, HashVars, DirVars, OptVars, GitVars, UpdVars>>
vars == <<part, Parts>>

-----------------------------------------------------------------------------
(* EnvTable: two names that share a slot of the index, a reference, and    *)
(* SHLVL and x inherited.                                                  *)
MCValues == {<<"9">>}
MCHash == [n \in {"x", "y", "r", "PWD", "OLDPWD", "IFS", "PATH", "SHLVL", "OPTIND"} |->
             CASE n \in {"x", "r"} -> 6 [] n = "y" -> 7 [] n = "PWD" -> 2 [] n = "PATH" -> 14
               [] OTHER -> 5]
MCEnvirons == {<< >>, << <<"SHLVL", <<"9">> >>, <<"x", <<"1">> >> >>}
MCRefs == {<<"r", "x">>, <<"x", "y">>}
MCDirectories == {<<"/a">>}
Env == INSTANCE EnvTable_proofs WITH Names <- VarNames

(* FuncTable: a script that redefines and unsets what it is running, one   *)
(* that switches options.                                                  *)
Redefines == [frames |-> 2, defines |-> {<<"f">>, <<"g">>, <<"f", "g">>},
              unsets |-> {"f", "g"}, switches |-> {}]
Switches == [frames |-> 1, defines |-> {<<"f">>}, unsets |-> {},
             switches |-> {"localoptions", "dotglob", "noglob"}]
MCScripts == {Redefines, Switches}
Func == INSTANCE FuncTable_proofs

MCPaths == {<<"d">>, <<"e", "d">>, <<"(unset)">>}
MCDefaultPath == <<"e">>
Hash == INSTANCE CmdHash

(* Cwd: a link, a directory that comes and goes, a hook that moves again.  *)
P(s) == [abs |-> TRUE, comps |-> s]
R(s) == [abs |-> FALSE, comps |-> s]
MCTree == {<<>>, <<"a">>, <<"a", "b">>, <<"c">>}
MCLinks == [l \in {<<"l">>} |-> <<"a", "b">>]
MCFragile == {<<"a", "b">>}
MCOperands == {P(<<"l">>), R(<<"b">>), R(<<"..">>), R(<<"l", "..", "c">>), R(<<"l", "..">>),
               R(<<".">>), P(<<>>)}
MCSwaps == {<<"c", "a">>, <<"a", "c">>}
MCAssigned == {<<"a">>}
MCHome == P(<<"c">>)
MCCdPath == <<R(<<"..">>), P(<<"a">>)>>
MCHooks == <<R(<<"b">>)>>
Dir == INSTANCE Cwd_proofs

(* Getopts: clusters, an argument apart and attached, `--`, an unknown     *)
(* letter, none.                                                           *)
MCArgLists ==
  {<< <<"-","a","b">>, <<"-","o","x">>, <<"-","a">> >>,
   << <<"-","a","o">>, <<"x">>, <<"x">> >>,
   << <<"-","a","z",":">>, <<"-","-">>, <<"-","a">> >>,
   << <<"-","b">>, <<"-","b","o">> >>,
   << >>}
MCOptStrings == [silent : BOOLEAN, plain : {{"a", "b"}}, taking : {{"o"}}]
Opt == INSTANCE Getopts

MCTrees == {{}, {"u", "?"}}
Git == INSTANCE GitScan
Upd == INSTANCE Update

-----------------------------------------------------------------------------
Idle == "idle"
IdleEnv == /\ env = Idle /\ index = Idle /\ var_attrs = Idle /\ told = Idle
IdleFunc == /\ functions = Idle /\ func_index = Idle /\ heap = Idle
            /\ dead_funcs = Idle /\ call_frames = Idle /\ setopt = Idle
            /\ cells = Idle /\ glob_cells = Idle /\ frames_dirty = Idle
            /\ funcname = Idle /\ asked = Idle /\ script = Idle
IdleHash == /\ files = Idle /\ PATH = Idle /\ path_dirs_src = Idle
            /\ cmd_cache = Idle /\ starting = Idle /\ outcome = Idle
IdleDir == /\ dirs = Idle /\ shell = Idle /\ dirstack = Idle
           /\ pushed = Idle /\ sent = Idle
IdleOpt == /\ args = Idle /\ optstring = Idle /\ OPTIND = Idle
           /\ getopts_ref = Idle /\ getopts_pos = Idle /\ saved = Idle
           /\ seen = Idle
IdleGit == /\ where = Idle /\ tree = Idle /\ gen = Idle /\ untracked = Idle
           /\ cache = Idle /\ scan = Idle /\ excused = Idle
IdleUpd == /\ data = Idle /\ target = Idle /\ tmp = Idle /\ release = Idle
           /\ sums = Idle /\ elevated = Idle /\ at = Idle /\ writes = Idle
           /\ torn = Idle /\ began = Idle /\ said = Idle

Init ==
  \/ part = "Env" /\ Env!Init
     /\ IdleFunc /\ IdleHash /\ IdleDir /\ IdleOpt /\ IdleGit /\ IdleUpd
  \/ part = "Func" /\ Func!Init
     /\ IdleEnv /\ IdleHash /\ IdleDir /\ IdleOpt /\ IdleGit /\ IdleUpd
  \/ part = "Hash" /\ Hash!Init
     /\ IdleEnv /\ IdleFunc /\ IdleDir /\ IdleOpt /\ IdleGit /\ IdleUpd
  \/ part = "Dir" /\ Dir!Init
     /\ IdleEnv /\ IdleFunc /\ IdleHash /\ IdleOpt /\ IdleGit /\ IdleUpd
  \/ part = "Opt" /\ Opt!Init
     /\ IdleEnv /\ IdleFunc /\ IdleHash /\ IdleDir /\ IdleGit /\ IdleUpd
  \/ part = "Git" /\ Git!Init
     /\ IdleEnv /\ IdleFunc /\ IdleHash /\ IdleDir /\ IdleOpt /\ IdleUpd
  \/ part = "Upd" /\ Upd!Init
     /\ IdleEnv /\ IdleFunc /\ IdleHash /\ IdleDir /\ IdleOpt /\ IdleGit

EnvStep == part = "Env" /\ Env!Next
           /\ UNCHANGED <<part, FuncVars, HashVars, DirVars, OptVars, GitVars, UpdVars>>
FuncStep == part = "Func" /\ Func!Next
            /\ UNCHANGED <<part, EnvVars, HashVars, DirVars, OptVars, GitVars, UpdVars>>
HashStep == part = "Hash" /\ Hash!Next
            /\ UNCHANGED <<part, EnvVars, FuncVars, DirVars, OptVars, GitVars, UpdVars>>
DirStep == part = "Dir" /\ Dir!Next
           /\ UNCHANGED <<part, EnvVars, FuncVars, HashVars, OptVars, GitVars, UpdVars>>
OptStep == part = "Opt" /\ Opt!Next
           /\ UNCHANGED <<part, EnvVars, FuncVars, HashVars, DirVars, GitVars, UpdVars>>
GitStep == part = "Git" /\ Git!Next
           /\ UNCHANGED <<part, EnvVars, FuncVars, HashVars, DirVars, OptVars, UpdVars>>
UpdStep == part = "Upd" /\ Upd!Next
           /\ UNCHANGED <<part, EnvVars, FuncVars, HashVars, DirVars, OptVars, GitVars>>

Next == EnvStep \/ FuncStep \/ HashStep \/ DirStep \/ OptStep \/ GitStep \/ UpdStep
Spec == Init /\ [][Next]_vars

-----------------------------------------------------------------------------
(* Whatever was set, removed and searched before, the index of the         *)
(* environment answers what a walk over the vector would, and a script     *)
(* reads back what it last wrote, under that name or under one that refers *)
(* to it (env_index.c, env_index2.c, env_set.c, builtin_declare2.c).       *)
EnvironmentTrue == part = "Env" => Env!IndexAgrees /\ Env!ReadsBack

(* Whatever a function does to itself or to its callers, the trees that    *)
(* are walked are alive and no other outlives the calls, a name means its  *)
(* newest definition, FUNCNAME is the calls in progress, and no file and   *)
(* no function leaks its dialect (func_retire.c, func_index.c,             *)
(* call_frames.c, zsh_mode2.c).                                            *)
CallsKeepTheirOwn ==
  part = "Func" => /\ Func!BodiesOutliveCalls /\ Func!LookupAgrees
                   /\ Func!FuncnameCurrent /\ Func!DialectKept

(* However PATH and the files changed since a name was remembered, what    *)
(* runs is a file that can be run in a directory of the PATH there is now, *)
(* and command -v names the very file (find_cmd_path*.c, builtin_cmd3.c).  *)
(* Two uses are left out: `hash name` as the first thing after PATH        *)
(* changed, which files it under the old directories (HashEarly = FALSE;   *)
(* path_cache_sync, find_cmd_path2.c:34), and directories under the name   *)
(* of a command, which access(2) calls executable ("dir" not in Kinds).    *)
HashNeverStale == part = "Hash" => Hash!RunsFromPath /\ Hash!CommandVTells

(* The text kept for the directory names it, and so do PWD, OLDPWD and the *)
(* stack of pushd, whichever of cd, hooks, pushd, popd and the reader      *)
(* moved; and reading a line moves the shell only if a widget did          *)
(* (cd_helpers*.c, builtin_dirstack.c, zle_cwd.c).                         *)
PlaceHolds == part = "Dir" => Dir!NamesResolve /\ Dir!ReaderMovesByWidget

(* getopts reports, once each and in order, the options the arguments      *)
(* mean, wherever OPTIND was put, unset, made local and put back in        *)
(* between (builtin_getopts*.c).                                           *)
OptionsOnce == part = "Opt" => Opt!ReportsAsWritten

(* The answer a prompt may show without asking again is the state of the   *)
(* repository it stands in, never another's, never from before the last    *)
(* command that touched a tree (prompt_git3.c, prompt_git6.c).             *)
StarTrue == part = "Git" => Git!StarTrue

(* Wherever an update fails or is killed, the installed path holds a whole *)
(* binary; 0 says that it was replaced, 1 to 4 that it was not, 5 and 6    *)
(* say neither (update_apply.c).                                           *)
BinaryWhole == part = "Upd" => Upd!BinaryWhole
=============================================================================
