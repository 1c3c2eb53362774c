-------------------------------- MODULE Cwd ---------------------------------
(***************************************************************************)
(* Where the shell is.  The kernel keeps the directory of the process; the *)
(* shell keeps a text for it, the user sees $PWD and $OLDPWD, and pushd    *)
(* keeps the directories to come back to.  `cd` works on texts (it keeps   *)
(* symbolic links), pushd, popd and `cd -P` ask the kernel, and when lines *)
(* are read by a forked reader a widget's cd is brought back through a     *)
(* pipe.  Directories are removed and made again meanwhile.                *)
(***************************************************************************)
EXTENDS Naturals, SequencesExt

CONSTANTS
  Tree,          \* the directories there are, sequences of names from the root
  Links,         \* symbolic link |-> directory, in place of the first
  Fragile,       \* the leaves of Tree that other processes remove and make again
  Operands,      \* what cd and pushd are given
  Swaps,         \* the pairs <<old, new>> of `cd old new`
  Assigned,      \* the values the user gives to PWD, absolute
  HOME, CDPATH,
  Hooks,         \* the directories the functions of chpwd_functions go to
  Forked,        \* HELLISH_RL_FORK: the line is read by a child
  LogicalReader, \* whether it is also used when the text goes through a link
  MaxStack

VARIABLES
  dirs,      \* the directories that exist
  shell,     \* see env_to_vec_env
  dirstack, pushed,
  sent       \* what the reader wrote to the pipe of zle_cwd_open

vars == <<dirs, shell, dirstack, pushed, sent>>

Unset == <<"(unset)">>
NoValue == <<"(no value)">>
NoCwd == <<"(null)">>
Nowhere == <<"(nowhere)">>
NoReader == [from |-> "none"]

Dash == [abs |-> FALSE, comps |-> <<"-">>]
Absolute(p) == [abs |-> TRUE, comps |-> p]

-----------------------------------------------------------------------------
(* The kernel.  A place is a directory by its true name; the directory of  *)
(* the process stays when its name is removed.                             *)

Enter(p, c) ==
  LET q == Append(p, c)
      r == IF q \in DOMAIN Links THEN Links[q] ELSE q
  IN  IF p = Nowhere THEN Nowhere
      ELSE IF c = "." THEN p
      ELSE IF c = ".." THEN (IF p = <<>> THEN p ELSE Front(p))
      ELSE IF r \in dirs THEN r ELSE Nowhere

Resolve(from, comps) == FoldLeft(Enter, from, comps)
Names(comps) == Resolve(<<>>, comps)

chdir(here, target) ==
  LET to == IF target.abs THEN Names(target.comps)
            ELSE IF here.live \/ target.comps \in {<<".">>, <<"..">>}
            THEN Resolve(here.at, target.comps) ELSE Nowhere
      stays == ~here.live /\ ~target.abs /\ target.comps = <<".">>
  IN  [at |-> to, live |-> ~stays]
Failed(place) == place.at = Nowhere

(* getcwd fails in a removed directory.                                    *)
x_getcwd(here) == IF here.live THEN here.at ELSE NoCwd

-----------------------------------------------------------------------------
(* The texts.  S has the directory of the process, the text kept for it,   *)
(* the two variables; and, for the properties, the directory the last move *)
(* left, whether the variables are still as the shell made them, and       *)
(* whether a line was read that moved the shell although no widget did.    *)

env_to_vec_env(here, inherited) ==
  [here |-> here, cwd |-> x_getcwd(here),
   PWD |-> IF here.live THEN x_getcwd(here) ELSE inherited,
   OLDPWD |-> Unset, left |-> here, own |-> here.live, ownOld |-> FALSE,
   strayed |-> FALSE]

NULL == {Unset, NoValue}

update_pwd_vars(S) ==
  [S EXCEPT !.OLDPWD = S.PWD, !.PWD = IF S.cwd = NoCwd THEN NoValue ELSE S.cwd,
            !.ownOld = S.own, !.own = TRUE]

Base(S) == IF S.PWD \notin NULL THEN S.PWD ELSE IF S.cwd # NoCwd THEN S.cwd ELSE <<>>

cd_push_comp(stack, c) ==
  IF c = "." THEN stack
  ELSE IF c = ".." THEN (IF stack = <<>> THEN stack ELSE Front(stack))
  ELSE Append(stack, c)
cd_canonicalize(comps) == FoldLeft(cd_push_comp, <<>>, comps)

cd_logical_path(S, target) ==
  cd_canonicalize(IF target.abs THEN target.comps ELSE Base(S) \o target.comps)

cd_do_logical(S, target) ==
  LET text == cd_logical_path(S, target)
  IN  [S EXCEPT !.here = chdir(S.here, Absolute(text)), !.cwd = text]

cd_do_physical(S, target) ==
  LET to == chdir(S.here, target)
  IN  [S EXCEPT !.here = to, !.cwd = IF to.live THEN x_getcwd(to) ELSE S.cwd]

cd_do(S, physical, target) ==
  IF physical THEN cd_do_physical(S, target) ELSE cd_do_logical(S, target)
(* Before the hooks.                                                       *)
cd_moved(S, T) == IF Failed(T.here) THEN S ELSE [update_pwd_vars(T) EXCEPT !.left = S.here]
cd_move(S, physical, target) == cd_moved(S, cd_do(S, physical, target))

(* The functions of chpwd_functions, in order; a cd in one of them runs no *)
(* function.                                                               *)
run_chpwd_hooks(S) == FoldLeft(LAMBDA T, to : cd_move(T, FALSE, to), S, Hooks)

cd_after(S, o, T) ==
  IF Failed(T.here) \/ o.quiet THEN cd_moved(S, T) ELSE run_chpwd_hooks(cd_moved(S, T))
cd_apply(S, o, target) == cd_after(S, o, cd_do(S, o.physical, target))

-----------------------------------------------------------------------------
(* cd.                                                                     *)

cd_parse_flags(letters) ==
  FoldLeft(LAMBDA o, c : CASE c = "L" -> [o EXCEPT !.physical = FALSE]
                           [] c = "P" -> [o EXCEPT !.physical = TRUE]
                           [] c = "q" -> [o EXCEPT !.quiet = TRUE],
           [physical |-> FALSE, quiet |-> FALSE], letters)

cd_skip_cdpath(op) == op.abs \/ op.comps = <<>> \/ Head(op.comps) \in {".", ".."}

(* The first directory of CDPATH that has it, as the kernel sees it.       *)
cd_cdpath(S, op) ==
  LET cand(i) == [abs |-> CDPATH[i].abs, comps |-> CDPATH[i].comps \o op.comps]
      i == SelectInSeq([k \in DOMAIN CDPATH |-> cand(k)],
                       LAMBDA c : ~Failed(chdir(S.here, c)))
  IN  IF cd_skip_cdpath(op) \/ i = 0 THEN op ELSE cand(i)

cd_one(S, o, op) ==
  IF op = Dash /\ S.OLDPWD \in NULL THEN S
  ELSE cd_apply(S, o, IF op = Dash THEN Absolute(S.OLDPWD) ELSE cd_cdpath(S, op))

(* The first occurrence of `old` in $PWD.                                  *)
cd_substitute(text, old, new) ==
  LET i == SelectInSeq(text, LAMBDA c : c = old) IN [text EXCEPT ![i] = new]
cd_two_arg(S, o, old, new) ==
  IF old \notin ToSet(Base(S)) THEN S
  ELSE cd_apply(S, o, Absolute(cd_substitute(Base(S), old, new)))

-----------------------------------------------------------------------------
(* What happens.                                                           *)

AtPrompt == sent = NoReader

Init ==
  /\ dirs = Tree
  /\ \E at \in Tree, live \in BOOLEAN, inherited \in Assigned :
       shell = env_to_vec_env([at |-> at, live |-> live \/ at \notin Fragile], inherited)
  /\ dirstack = <<>> /\ pushed = <<>> /\ sent = NoReader

builtin_cd(letters, op) ==
  /\ AtPrompt
  /\ shell' = cd_one(shell, cd_parse_flags(letters), op)
  /\ UNCHANGED <<dirs, dirstack, pushed, sent>>

builtin_cd_two(old, new) ==
  /\ AtPrompt
  /\ shell' = cd_two_arg(shell, cd_parse_flags(<<>>), old, new)
  /\ UNCHANGED <<dirs, dirstack, pushed, sent>>

(* What pushd and popd do once they have moved; the hooks are not run.     *)
ds_refresh(S, to) ==
  update_pwd_vars([S EXCEPT !.here = to, !.left = S.here,
                            !.cwd = IF to.live THEN x_getcwd(to) ELSE S.cwd])

builtin_pushd(target) ==
  LET to == chdir(shell.here, target)
      old == x_getcwd(shell.here)
  IN  /\ AtPrompt /\ ~Failed(to)
      /\ Len(dirstack) < MaxStack
      /\ dirstack' = IF old = NoCwd THEN dirstack ELSE Append(dirstack, old)
      /\ pushed' = IF old = NoCwd THEN pushed ELSE Append(pushed, shell.here)
      /\ shell' = ds_refresh(shell, to)
      /\ UNCHANGED <<dirs, sent>>

(* The entry is gone even when it cannot be gone back to.                  *)
builtin_popd ==
  LET to == chdir(shell.here, Absolute(Last(dirstack)))
  IN  /\ AtPrompt /\ dirstack # <<>>
      /\ dirstack' = Front(dirstack) /\ pushed' = Front(pushed)
      /\ shell' = IF Failed(to) THEN shell ELSE ds_refresh(shell, to)
      /\ UNCHANGED <<dirs, sent>>

free_dirstack ==
  /\ AtPrompt /\ dirstack # <<>>
  /\ dirstack' = <<>> /\ pushed' = <<>>
  /\ UNCHANGED <<dirs, shell, sent>>

(* PWD=text, or unset PWD.                                                 *)
UserSetsPWD(v) ==
  /\ AtPrompt
  /\ shell' = [shell EXCEPT !.PWD = v, !.own = FALSE]
  /\ UNCHANGED <<dirs, dirstack, pushed, sent>>

(* The reader: a child, whose widgets may cd; at the end of the line it    *)
(* writes where it is.                                                     *)
zle_cwd_send(place, moved) ==
  /\ Forked /\ AtPrompt /\ shell.cwd # NoCwd
  /\ LogicalReader \/ Names(shell.cwd) = shell.cwd
  /\ moved \/ place = shell.here
  /\ sent' = [from |-> "reader", path |-> x_getcwd(place), moved |-> moved]
  /\ UNCHANGED <<dirs, shell, dirstack, pushed>>

(* Mutant: the text is taken over before it is known to be there.          *)
zle_cwd_apply_first(S, path) ==
  update_pwd_vars([S EXCEPT !.here = IF Failed(chdir(S.here, Absolute(path))) THEN S.here
                                     ELSE chdir(S.here, Absolute(path)),
                            !.cwd = path, !.left = S.here])
zle_cwd_apply(S, path) ==
  LET to == chdir(S.here, Absolute(path))
  IN  IF Failed(to) THEN S
      ELSE run_chpwd_hooks(update_pwd_vars([S EXCEPT !.here = to, !.left = S.here,
                                                     !.cwd = x_getcwd(to)]))

Adopted(S) == [S EXCEPT !.strayed = @ \/ (~sent.moved /\ S # shell)]

(* Mutant: what the reader says is always taken over.                      *)
zle_cwd_adopt_always ==
  /\ sent # NoReader
  /\ shell' = IF sent.path = NoCwd THEN shell ELSE Adopted(zle_cwd_apply(shell, sent.path))
  /\ sent' = NoReader
  /\ UNCHANGED <<dirs, dirstack, pushed>>
zle_cwd_adopt ==
  /\ sent # NoReader
  /\ shell' = IF sent.path \in {NoCwd, shell.cwd} THEN shell
              ELSE Adopted(zle_cwd_apply(shell, sent.path))
  /\ sent' = NoReader
  /\ UNCHANGED <<dirs, dirstack, pushed>>

(* Other processes.  What holds a directory that is removed holds it for   *)
(* good: the one made again is another.                                    *)
Gone(place, d) == IF place.at = d THEN [place EXCEPT !.live = FALSE] ELSE place
Rmdir(d) ==
  /\ d \in dirs
  /\ dirs' = dirs \ {d}
  /\ shell' = [shell EXCEPT !.here = Gone(@, d), !.left = Gone(@, d)]
  /\ pushed' = [i \in DOMAIN pushed |-> Gone(pushed[i], d)]
  /\ UNCHANGED <<dirstack, sent>>
Mkdir(d) ==
  /\ d \notin dirs
  /\ dirs' = dirs \cup {d}
  /\ UNCHANGED <<shell, dirstack, pushed, sent>>

Next ==
  \/ \E letters \in {<<>>, <<"P">>, <<"P", "L">>, <<"q">>}, op \in Operands \cup {Dash, HOME} :
       builtin_cd(letters, op)
  \/ \E s \in Swaps : builtin_cd_two(s[1], s[2])
  \/ \E op \in Operands : builtin_pushd(op)
  \/ builtin_popd
  \/ free_dirstack
  \/ \E v \in Assigned \cup {Unset, NoValue} : UserSetsPWD(v)
  \/ \E d \in dirs, moved \in BOOLEAN : zle_cwd_send([at |-> d, live |-> TRUE], moved)
  \/ zle_cwd_adopt
  \/ \E d \in Fragile : Rmdir(d) \/ Mkdir(d)

Spec == Init /\ [][Next]_vars

-----------------------------------------------------------------------------
(* As long as the directory of the process exists, the text the shell      *)
(* keeps for it names it, and so does $PWD unless the user has given it a  *)
(* value since the last move; $OLDPWD names the directory that was left,   *)
(* whichever of cd, its hooks, pushd, popd and the reader's widget moved;  *)
(* and popd goes back to where its pushd was given (cd_helpers*.c,         *)
(* builtin_dirstack.c, zle_cwd.c, environment/utils2.c).                   *)
NamesResolve ==
  /\ shell.here.live => /\ Names(shell.cwd) = shell.here.at
                        /\ shell.own => Names(shell.PWD) = shell.here.at
  /\ shell.ownOld /\ shell.left.live => Names(shell.OLDPWD) = shell.left.at
  /\ \A i \in DOMAIN pushed : pushed[i].live => Names(dirstack[i]) = pushed[i].at

(* A line that is read moves the shell, and its $PWD and $OLDPWD, only if  *)
(* a widget moved the reader (editing/zle_cwd.c).                          *)
ReaderMovesByWidget == ~shell.strayed
=============================================================================
