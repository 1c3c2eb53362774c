# hellish in TLA+

hellish is an interactive and scripting shell in C (about 77 000 lines under
`src/src/`, headers in `src/incs/`). This directory models its control logic in
TLA+, checks the models with TLC on small instances and proves the invariants
that matter for every size with TLAPS.

## 1. The system

One process, one thread, no locks: what makes the shell hard is what happens
around that thread. Children run, stop and die on their own; signals arrive
between any two statements; C functions that save something and put it back may
be left by `exit`, an error or a `return`; and control flow is carried by flags
that every walker has to look at.

| Component | State it keeps | Operations | Interacts with | What is hard | What makes it right |
|---|---|---|---|---|---|
| Job table (`job_control/`, `job_table2.c`) | slots, count, the + and - markers | add, record, remove, purge, number, re-elect | everything below | holes, reuse of numbers, a full table | unique numbers, exact count, markers that name jobs, an unfinished job elected when there is one |
| Jobs and waiting (`bg_done.c`, `execute_pipeline.c`, `res_utils.c`, `builtin_wait*`, `builtin_proc*`, `builtin_jobs.c`, `builtin_fg/bg/kill`) | status ring, `$!`, the children | fork, reap, poll, wait, jobs, fg, bg, kill | job table, kernel, read-eval loop | four callers of waitpid, statuses that age, a ring that wraps | every death is remembered until answered, shown at most once, answered truthfully; wait returns |
| Leaving (`exit_jobs.c`, `exit.c`, `job_hangup.c`, `off()` in `shell.c`) | `exit_warned`, the attempt | exit, ^D, hang up, bounded wait | job table, input | a job that stops just before the question, one that ignores SIGHUP | asks twice, from fresh statuses, and leaves in bounded time |
| Executor (`execution/`) | `loop_depth`, `loop_break`, `loop_continue`, `func_depth`, `func_return`, `errexit_off` | lists, and-or, loops, if, `{ } always { }`, functions, eval | traps, builtins, jobs | flags instead of exceptions, counters that must be paired on every path | the walk implements structured unwinding |
| Traps (`builtin_trap*.c`, `exec_traps*.c`) | the pending slot, the bodies, `trap_depth` | set, receive, run, EXIT, ERR, RETURN, DEBUG | executor | a body runs in the middle of an unwinding | a trap is transparent to what it interrupts |
| Terminal hand-over (`job_pgrp.c`, `tty_snapshot.c`) | `fg_pgid`, who owns the terminal | begin, child, parent, end | jobs, readline | both sides of the fork race | the shell owns the terminal at every prompt |
| Redirections (`redir*.c`, `execute_builtin.c`, `procsub*.c`) | descriptors, saved copies | save, apply, restore, exec | builtins, functions, history descriptor | a redirection that names a saved copy, a failure half-way | descriptors are what they were before the command |
| Variables and scopes (`environment/`, `func_scope*.c`, `local_builtin.c`) | environment, attributes, the stack of saves | local, temporary assignment, export, readonly, nameref | functions, expansion | saves and restores by hand | dynamic scoping |
| Expansion (`expander/`, `word_splitting/`) | none across words | brace, tilde, parameter, command, arithmetic, split, glob, quote removal | variables, executor | the order of the stages, quoting that must survive them | agrees with a reference definition |
| Command substitution (`cmdsub*.c`, `capture_subshell_output.c`) | `csf_depth` | fork and capture, or run in place | executor, jobs | an in-place body must leave no trace | the same as in a subshell |
| Lexer, parser (`lexer/`, `parsing/`) | token queue | tokenize, parse, ask for more | input, aliases, heredocs | grammar that depends on position | agrees with the grammar |
| Aliases (`alias/`) | table, active names | expand before lexing | lexer | recursion, trailing blanks | terminates |
| Here-documents (`heredoc/`) | bodies, files | gather, read | parser, redirections | order of bodies | each operator gets its own body |
| Arithmetic (`arith/`) | token cache | evaluate | variables | 64-bit edges, dead branches | agrees with wrapped integers, no side effects in dead branches |
| Globbing (`glob/`, `case_match*.c`) | directory walk | match, sort, qualify | expansion | brackets, extended patterns | agrees with the reference matcher |
| Input, readline, history (`infrastructure/`, `rl*.c`, `editing/`) | buffers, history list and file | read a line, join, record, trim | everything | sessions that share a file, a descriptor the user reuses | nothing recorded is lost |
| Prompt (`prompt*.c`) | git cache, scanner pipe | render, spawn, harvest | input | a late answer for another directory | published for the repository it scanned |
| Self update (`update*.c`) | claim, cache, staged file | claim, fetch, verify, replace, prove | files | failure half-way, two shells | what is installed runs |
| Command lookup (`find_cmd_path*.c`, `builtin_hash*.c`) | hash of paths | look up, forget | executor | stale paths | a remembered path is one PATH would give |
| getopts (`builtin_getopts*.c`) | the letter inside the word, the address of `$OPTIND`'s value | one option a call | variables, scopes | the user may write OPTIND between any two calls | every option is reported once, as it is written |
| Working directory (`cd_helpers*.c`, `builtin_dirstack.c`, `zle_cwd.c`) | the text of the directory, the stack | cd, pushd, popd, a widget in the forked reader | variables, hooks | directories removed and made again; texts with symbolic links | the text, `$PWD` and `$OLDPWD` name the directory |
| Functions and frames (`execute_function.c`, `func_*.c`, `call_frames*.c`) | the table, its index, retired bodies, frames | define, unset, call, source, return | executor, options | a body changed while it runs | a call runs the body it began with and puts its options back |
| Stateless builtins, completion, banner, help | none | formatting | - | - | not modelled |
| Arenas and slabs (`parse_arena*.c`, `word_slab.c`) | memory | allocate, release | parser, functions | a body that outlives its line | nothing live is released |

`bench/`, `docker/`, `npm/`, `mk/`, `share/`, `tests/`, `tools/` and `wiki/` are
not part of the program.

## 2. Modules

| Module | Models | How |
|---|---|---|
| `JobTable` | `job_control/*.c` | The table as a record; each C function an operator on it, its loops written as set definitions, and again as the C loops, recursive functions over slots, which are compared with the definitions on every table a session reaches. |
| `JobControl` | children, ring, read-eval loop, `wait`/`jobs`/`fg`/`bg`/`kill`/`exit` | `proc` is the kernel; `pc` is where the shell is between two system calls; each waitpid is a step, so children move between any two of them. |
| `JobControl_proofs` | - | Three parts: the table and the kernel stay well formed; what the shell says of a job is true; nothing is lost, the current job is one, and exit asks. |
| `ShellProg` | the tree after parsing and the activations of the walk | Commands are what they do to control flow; `ext` succeeds or fails at will. |
| `ShellSem` | what the executor promises | break, continue, return as an unwinding that walks down the stack until its target takes it; no flags, no counters. |
| `ShellExec` | `execution/`, traps, `break`/`continue`/`return`/`exit`/`eval`/`trap` | The C stack is a sequence of frames; the flags and counters are the C fields, raised and lowered where the code does. `Refines` maps it to `ShellSem`. |
| `MCShellExec` | - | The programs. |
| `ShellExec_proofs` | - | The counters of the C stack are paired, and the flags are sound. |
| `DynScope` | what variables promise a script | Layers of cells: a name means its newest cell, a return takes the layers of its call away and nothing else. |
| `VarScope` | `environment/`, `func_scope*.c`, `local`, `export`, `readonly`, `unset`, assignments | One flat table, the stack `local_saves`, the saved prefix of each call in progress. `DynamicScoping` maps it to `DynScope`. |
| `MCVarScope` | - | Names, values and assignment lists. |
| `FoldFacts` | - | What the loops written as folds compute: what holds before the first turn and is kept by each holds after the last. A proof names an instance for each loop. |
| `VarScope_proofs` | - | The table of variables and its saves for any names, lists and depth. |
| `Scanners` | every function that finds the end of a quoted or nested span | One operator per scanner; a scanner takes a text and a position. |
| `Lexer` | `lexer/` | Tokens are slices of the text; the whole text, or line by line. |
| `Parser` | `parsing/`, the keyword pass | One operator per `parse_*` function, with its three results. |
| `AliasScan` | `alias/` | The scan state is the C struct: the stack of texts, the flags of command position. |
| `Heredoc` | `heredoc/` | The three ways a body travels from the input to its operator. |
| `HistoryText` | `history_join*.c`, `history_expand*.c`, `builtin_fc*.c` | Joining, encoding, `!` and `^`, ranges. |
| `MCSyntax` | - | The inputs, abstract programs written out as text, and the properties of these six. |
| `Reparse` | `word_splitting/` | A word cut into its segments. |
| `Arith` | `arith/` | The lexer, the parser that evaluates, the token cache; the reference is a tree. |
| `Pattern`, `Glob` | `case_match*.c`, `glob/` | The matchers and the walk of directories; the reference is the language of a pattern. |
| `ParamExp` | `expand_param_*.c` | `${...}`: which operator, and what it makes of a value. |
| `Brace` | `brace_expand*.c` | Braces and sequences. |
| `Arrays` | `env_array*.c`, `env_assoc*.c`, subscripts, assignments | An array is the list of records the code keeps. |
| `Words` | `expand_word*.c`, `expand_token.c`, `expand_array*.c`, `split_*.c`, `ifs_split*.c` | From tokens to fields, and the short cuts beside it. |
| `MCWords` | - | The inputs, the references and the properties of these. |
| `Redir`, `MCRedir` | redirections, saved descriptors, children | The descriptor table; `MCRedir` runs it in lockstep with redirections that act one by one. |
| `MCLanguage` | - | `MCSyntax`, `MCWords` and `MCRedir` as one specification of which a behaviour takes one. |
| `EnvTable` | `environment/` | The vector of records, the hash index beside it, the attributes of declare. |
| `EnvTable_proofs` | - | The vector and its index for any names, any hash function and any number of records. |
| `FuncTable` | functions, frames, options put back | The index, the retired bodies, the stack of frames. |
| `FuncTable_proofs` | - | The same for any functions, scripts and depth of calls. |
| `CmdHash` | `find_cmd_path*.c`, `builtin_hash*.c` | Files and `$PATH` change between the hash in the shell and the look-up in the child. |
| `Cwd` | `cd`, `pushd`, `popd`, the reader's widget | The kernel's directory beside the texts the shell keeps. |
| `Cwd_proofs` | - | The same for any tree, links, operands, hooks and CDPATH. `MCTables` takes its instances of `EnvTable`, `FuncTable` and `Cwd` from the modules of their proofs. |
| `Getopts` | `builtin_getopts*.c` | With the user's writes to OPTIND, and an address that is given again. |
| `GitScan` | `prompt_git*.c` | The scanner is a process; prompts, commands and its answers interleave. |
| `Update` | `update_apply.c`, `update_install.c`, `update_self.c` | Files are inodes; every step may fail or be killed. |
| `MCTables` | - | These seven as one specification of which a behaviour takes one. |
| `MCTables_proofs` | - | The invariants of the run `tables` as theorems about `MCTables`: those of `EnvTable`, `FuncTable` and `Cwd` are cited from the modules of their proofs, those of `CmdHash`, `Getopts`, `GitScan` and `Update` are proved here. |
| `History` | `history*.c`, `builtin_history*.c` | Sessions share files; a descriptor is a number and the file it is open on. Its last definitions are what `History.cfg` gives it. |

### JobControl

A child is none, running, stopped, zombie or reaped, with a pending signal and
whether its stop or continuation has been reported; `Ready` is what a waitpid
with the given options can return. The table and the ring are the C ones
(`JOB_MAX` slots, `RingSize` entries). `pc` labels: `prompt` is the top of
`repl_shell`, `poll` the loop of `job_update_status` (one waitpid a step, `after`
says where it returns), `command` the choice of a command, the others the
builtin or loop of that name. `Local` names the labels where the shell touches
nothing a child can see: a step of a child commutes with those steps, so
children do not move there, which loses no behaviour that a property can see.
`history` variables (`launched`, `told`, `swept`, `shown`, `typed`, `turns`)
record what the user was told and are read by properties alone.

What the user is told is in three properties. `StatusTold`: an answer of `wait` or `fg`
is how the process ended, a statement that a job is over is made of a process that is
dead, and a process is printed as over at most once. `EntriesTrue`: the entries of the
table and of the status ring agree with the processes. `NoSilentEnd`: outside `wait` a
job leaves the table only when its line was printed or its status handed out. None says
that `wait` answers once: it may answer twice (section 4). `ParentExpands` (a body of
`$( )` run in the shell itself) is free of `Interactive`, as in the code.

### ShellExec

`ctl` is what the walk does next, `stack` the activations that still have
something to do. The bodies of eval and of traps run through `exec_string` and
push a `string` frame. `run_pending_traps` reads and zeroes the slot in two
steps, and a signal may come in at any step. Redirections, forks, ^C unwinding
(`should_unwind`, `discard_line`), DEBUG traps and `source` are not here; none of
them changes the flags and counters of this module on the paths it keeps.

### VarScope

The shell has one flat table and no scopes: a scope is what has to be put back.
`env` is the table (a name without a record is `Absent`, one exported before it
has a value holds `NoValue`), `local_saves` the C vector of that name, `calls` the
saves of the `NAME=value` words in front of each call in progress, which live in
the C frame of `handle_func_call`; `func_depth` is their number. A builtin runs
between `apply_temp_assigns` and `restore_temp_assigns`, in one step: nothing else
runs meanwhile.

The refinement reads the layers of `DynScope` out of the saves: layer 1 is global,
layer 2k holds the names in `calls[k]`, layer 2k + 1 those saved at depth k. A layer
is known by the first value that was saved for each of its names, the one the name had
before the layer was made (`FirstSaved`); what a name means in a layer is what the
lowest layer above it saved, or what is in the table when none did (`Scope`).

`Unusual` lists uses of these scopes that the code does not carry through, each
found by enabling it alone in the run `var_scope`:

| Use | What happens | Where |
|---|---|---|
| `repeated` | `x=1 x=2` leaves x=1: the list is popped from its end | `expander_simple_cmd.c:48` |
| `valueless` | `export X; f` with `local X` in f: X comes back as the empty string, set | `func_scope.c:48` |
| `local_prefix` | `x=1 local x`: the prefix is put back over the local, whose save holds 1 | `execute_builtin.c:93` |
| `redeclared` | `local x=1; local x=2`, and a callee unsets x: the first local comes back, not the caller's x | `try_unset.c:41` |
| `under_prefix` | `x=1 g` from a function with a local x, and g unsets x: the save is popped under the prefix | `try_unset.c:41` |

`var_scope` leaves them out and shows the rest to be dynamic scoping; `var_export`
has all of them in. The shell is interactive: an error is reported and the next
command runs.

### MCSyntax, MCWords

A module that models a pure part of the code has operators named after its
functions and no state; the MC module starts a behaviour from each input of a
small grammar and compares what the operators answer with a reference that is
written from the other side: `MCSyntax` builds a tree and writes it, the parser
must read it back; `Arith` evaluates a tree with C's rules; `MCWords` gives
the set of texts a pattern stands for; a word is a list of parts of which each
says what it contributes, and POSIX's rule cuts the whole into fields; an array is
a function from indices to texts. A program is also damaged, by dropping a token
(`Drop`), and typed line by line. What is compared is said of a step: a behaviour
chooses an input, and `ReadText` or `Expand` is the step in which the code reads it, so
that these eleven properties of `language` are action properties of those steps
(`[][ReadStep => ...]_vars`); the store of arrays and the descriptor table are state
machines and have invariants.

Texts are sequences of characters. What the code does with a wide character is
kept where it matters ("E1" "E2" "E3" are the bytes of one).

### Redir

A command resolves its whole list, with every open, probe and parked descriptor,
and then applies it; here-document bodies are gathered before. Builtins, exec,
functions, compounds, subshells, external commands, two-stage pipelines, coprocesses
and process substitutions each save, apply and give back as their C function does.
`ParkFloor` stands for 10. `Meant` leaves out three uses that the code answers
otherwise than one by one: a dup of a descriptor closed earlier on the same line
(`3>&- 4>&3` passes its probe and then fails in silence), `/dev/fd/n` of a
descriptor redirected earlier on it, and closing a standard descriptor around
anything but a leaf command.

### Cwd, CmdHash, EnvTable, FuncTable, Getopts, GitScan, Update

Each has the switch that turns on a use the code does not carry through; with it
the run `tables` fails.

| Switch | Off in `tables` | What happens |
|---|---|---|
| `EnvTable.Chains` | references to references | `declare -n a=b; declare -n b=c; a=1` writes b, while a read follows to c |
| `CmdHash.HashEarly` | `hash name` as the first thing after PATH changed | the name is hashed under the old directories (`find_cmd_path2.c:35-40`) |
| `Cwd.LogicalReader` | a shell standing in a symbolic link that reads by a forked reader | reading a line moves `$PWD` and fires the hooks (`zle_cwd.c:50-53`) |
| `Getopts.Liberties` | OPTIND assigned twice, a local OPTIND inside a cluster, arguments cut short under the scan | a letter is skipped or read past the word (`builtin_getopts.c:48-52`, `builtin_getopts3.c:44-48`) |
| `GitScan.Unseen` contains `subshell` | commands that change the tree in a subshell | the generation rises in the child alone, and the star stays until the answer is too old |
| `Update.Updaters` with two | two updates at once | both write `target.hellish-update`, and one may rename the file the other has just truncated |

In `GitScan` what another process does to the tree is never noticed and is excused
(`Unseen`). In `Update` a `sudo install` that stops half-way is excused (`torn`),
because it is no rename. Every step of an update may fail, and the last ones do so after
the target was replaced: the chmod behind the rename (code 5), a `sudo install` that
copies all and then fails (5), and the question to the new binary, for want of a pipe or
a process or because it is not what was asked for (6). So `BinaryWhole` says of codes 1
to 4 that the target is as it was, of 0 that it is the new binary, and of 5 and 6 neither;
what a comment says of them, `FailureChangesNothing`, is the violated run
`update_unchanged`.

### History

`disk` holds the files, `hist` and `rl` what a session keeps, `desc` its descriptor.
`skew` says by which uses the marks of a session may have come apart from the list:
`history -d` of an entry below a mark (`builtin_history2.c:94-98` takes it out
and leaves the marks, against `history_size.c:24-31`), `history -a` after lines that
were not streamed (`builtin_history4.c:46-54` takes them as saved), and two start-up trims of one file at a time.

## 3. Runs

<!-- runs -->
| Run | Configuration | Properties | Shows |
|---|---|---|---|
| jc_interactive | `JobControl_interactive.cfg` | `CurrentElected`, `StatusTold`, `NothingLost`, `EntriesTrue`, `NoSilentEnd`, `ExitHonest`, `SessionMovesOn` | An interactive session with two jobs that run, stop, continue and die at any moment: the table, the ring, the answers of wait, the lines that are printed and the two-step exit agree with what the processes did, and no end goes by in silence. |
| jc_script | `JobControl_script.cfg` | `TypeOK`, `TableWellFormed`, `LoopsAgree`, `WaitReturns` | A script with three children and a ring of two, under any use of the builtins, fg of a finished job and a body expanded in the shell itself included: the table stays well formed, on every table the script makes the loops of the code find and remove what the definitions of JobTable do, and every wait comes back once the children do; the theorems prove the first three for every size and for the interactive shell too. |
| shell_exec | `MCShellExec.cfg` | `FlagsSound`, `CountersPaired`, `Refines`, `UnwindingEnds` | The executor with its flags and counters implements structured unwinding, for several hundred programs that nest loops, functions, cleanups, eval and traps. |
| var_scope | `MCVarScope_scopes.cfg` | `TableLayered`, `DynamicScoping` | The flat table of variables with its lists of saves implements dynamic scoping, three calls deep, for the uses it is meant for. |
| var_export | `MCVarScope_export.cfg` | `ExportSticks` | With every use of local, prefixes, export, readonly and unset, an exported variable that stays set stays exported. |
| language | `MCLanguage.cfg` | `RoundTrip`, `SpansAgree`, `TokensExact`, `HeredocBodies`, `AliasOnlyCommands`, `RecalledSame`, `ExpressionsMean`, `PatternsMean`, `GlobFinds`, `BracesMean`, `FieldsSplit`, `StoreIsFunction`, `RedirectionsMean` | From the text of a command to the command: the lexer, the parser, here-documents, aliases, the history, arithmetic, patterns, parameters, globs, braces, splitting, arrays and redirections answer what references that do not look at the code answer, over every input of the bounded grammars. |
| tables | `MCTables.cfg` | `EnvironmentTrue`, `CallsKeepTheirOwn`, `HashNeverStale`, `PlaceHolds`, `OptionsOnce`, `StarTrue`, `BinaryWhole` | The tables a session keeps and what changes under them: the hash indices of variables and functions, the remembered commands, the working directory, getopts, the background git scan and the self update, one part a behaviour. |
| history | `History.cfg` | `EntriesKept`, `OwnFileOnly` | Two sessions and a script over shared history files, with trims at start-up, failed writes, a history descriptor the user takes, and sessions that are killed. |
| inline_cmdsub (violated) | `JobControl_expand.cfg` | `FgChildHeld` | A command substitution run in the parent can collect an earlier stage of the pipeline being started, which is then waited for for ever. |
| break_in_condition (violated) | `MCShellExec_condition.cfg` | `FlagsHaveTargets` | A break in a loop condition outlives its loop. |
| redir_bodies (violated) | `MCRedir_bodies.cfg` | `GivenAsWritten` | A here-document whose body lies on a descriptor from 3 to 9 is overwritten by a redirection of that number earlier on the same command. |
| update_unchanged (violated) | `Update_unchanged.cfg` | `FailureChangesNothing` | A failure after the rename is reported although the installed binary has been replaced. |
<!-- end runs -->

### Bounds

- Jobs: two slots and two or three children let every table be full, have a hole
  and reuse a number; a ring of two wraps in a script of three children, a ring of
  four does not, which `NothingLost` needs: a ring of 128 forgets by design.
  `MaxStages` 2 is the shortest pipeline whose stages can be told apart.
  `HangupRounds` 1 stands for the fixed number of naps.
- Executor: three nested loops, `break n` and `continue n` with n from 0 to 4 (so
  below, at and above the depth), two words in a `for`, at most two signals a run.
  `ext` chooses its status each time, so one program covers every path.
- Variables: two names (one to assign, one to read it), two values one of which
  is the empty string, three calls deep in `var_scope` (a callee, its caller and
  the caller's caller, which the upvar rule tells apart) and two in `var_export`,
  at most two entries in `local_saves`. `ReadonlyNames` and `ExportNames` say on
  which names those builtins are used; `var_scope` uses neither, because export
  and readonly are not part of scoping.
- The passing programs keep break, continue and return off the left of `&&`/`||`
  and off conditions, give no signal trap to a program that returns, and use
  one-range trap bodies where a flag may be up. `break_in_condition` shows what one
  of these shapes does; the other two are listed in section 4.
- Language: programs of every construct of the grammar, nested two deep
  and each of them with any one token dropped; words with two spans, one in the
  other (`WordDepth` 2); any four operator characters (`CharsMax` 4: the longest
  operator has three, and one more may follow); up to three lines with
  here-documents (`LinesMax`). Expressions are trees two operators deep at five bits,
  where shifts, overflow and the least number divided by -1 all occur; patterns of
  two elements with extglob groups, in texts of up to three bytes; a word of at most
  two parts (`ItemsMax`) out of nineteen, eight values, four lists and four IFS; four
  assignments to a variable (`WritesMax`). Redirections: lists of at most two, in
  commands nested two deep (`MaxDepth`), two commands a behaviour (`MaxSteps`; three
  were checked as well and take longer), parking from 4 instead of 10, so that
  descriptor 3 stands for 3 to 9.
- Tables: two or three names of which two collide in the index; two frames and three
  bodies; one directory that comes and goes, reached by its name and by a link; two
  repositories for the scanner, and a generation that rises once (`GenMax`), so that
  a scan may have begun before or after the command; one updater and three inodes.
- History: two sessions and a script that appends, two files and one of the user's,
  two lines of which one is ignored under `ignoreboth`, at most three entries, two
  starts, two commands after each, one foreign line, one use of `history`.
- What the references of the language leave out, because the code answers otherwise
  (section 4): a subscript with a side effect in an operand that is not evaluated
  (`DeadSubscript`), a value whose blanks and delimiter follow other text
  (`LateDelimiter`), a substitution whose pattern begins with an extglob star group
  (`Fused`), an empty alternative in any brace group but the first (`EmptyFirst`), a zsh
  slice of what is no array and compound elements with subscripts under zsh
  (`AssignSlice`, `AssignCompound`), `a[0]+=` on a scalar (`AssignElem`).

### Fairness

`JobControl` assumes that the shell takes its next internal step (`WF(Internal)`):
nothing between two system calls can hold a thread. Nothing is assumed of the
user or of the children; `WaitReturns` and `SessionMovesOn` say "unless the child
stays alive" and "unless the shell never asks". `ShellExec` assumes `WF(Walk)` for
the same reason; programs may loop for ever, so `UnwindingEnds` speaks of
unwindings alone. The other modules state safety alone.

## 4. What the runs show about the code

<!-- findings -->
- **inline_cmdsub** (`FgChildHeld`, `src/src/expander/cmdsub_fast.c:105`): With a background child around, `true | echo $(echo x)` expands the body of $( ) in the shell itself while stage 1 is already running; its list reaps with waitpid(-1) (src/src/execution/execute_simple_list.c:28) and may collect stage 1. pipeline_status then waits for that pid: exe_res_set_status (src/src/execution/res_utils.c:53) retries every failure, ECHILD included, for ever. Its comment (res_utils.c:33-36) says the loop is there "so a SIGCHLD from an unrelated background job does not cause us to lose track of this specific child".
- **break_in_condition** (`FlagsHaveTargets`, `src/src/execution/execute_while.c:64`): execute_while leaves its loop on the status of the condition without handle_loop_ctl. After `until break; do :; done` loop_break stays 1 with loop_depth 0, and every later list stops after its first range. The comment (execute_while.c:48-51) says "handle_loop_ctl drains one level of break/continue ..., so nested loops each consume exactly one level".
- **redir_bodies** (`GivenAsWritten`, `src/src/heredoc/collect3.c:68`): The descriptor a here-document, a here-string (src/src/expander/redirect_herestring.c:37) or a process substitution is read from is left at the lowest free number, 3 to 9 in a fresh shell, while opened files are parked at 10 and above. `cat 3>out <<EOF` applies 3>out first, over the descriptor of the body: cat reads the file out instead of its body. src/src/expander/redir_fd.c:34-36 says "Parking at >= 10 ... makes the scratch fd distinct from every fd 0-9 a script can address, so no ordering of redirections can collide".
- **update_unchanged** (`FailureChangesNothing`, `src/src/platform/posix/update_apply.c:65`): The comment on update_apply (src/src/platform/posix/update_apply.c:118-119) says "Every failure path leaves the installed binary exactly as it was", and update_selfupdate prints "the installed binary is unchanged" for every code (update_self.c:87). But move_into_place returns 0, hence code 5, when the rename succeeded and the chmod after it fails (update_apply.c:63-65), and code 6 is also given when the new binary is in place and could not be asked, for want of a pipe or a process (update_apply.c:144-145, update_fetch.c:53-57): both times the target has been replaced.
<!-- end findings -->

### Also seen, and kept out of the runs

The models answer as the code does; where that is not what a comment, bash or POSIX
says, the run would fail, so its inputs leave the case out. By module:

- `JobControl`: ^Z on a pipeline files one job for each stage (`fg_stopped.c:57`,
  against `job_control.h:13-15`); `wait` answers twice for a pid when `jobs` ran in
  between; `exit` hangs up no jobs, end of input does; `fg` of a finished job reads
  a status no waitpid wrote.
- `ShellExec`: `break && cmd` runs cmd (`execute_range.c:100`, against
  `execute_simple_list.c:118-120`); a signal trap right after `return` cancels it
  (`exec_string4.c:138`, against `builtin_cmd2.c:21-23`); `{ continue; } always
  { return; }` continues; after `{ break; } always { continue; }` in a loop
  loop_continue stays 1 outside every loop, for `always_unpark` puts the break beside it
  (`execute_always.c:52`) and the loop uses up the break alone
  (`execute_while.c:30`); a signal between reading and zeroing the slot is lost.
- `VarScope`: the table in section 2. `FuncTable`: setopt in a called function is
  put back on some ways out only (`call_frames.c:115-123`, `builtin_zsh_opt2.c:66-72`).
- `Scanners`, `Reparse`: `$(echo $'\'')` and `$("$(")")` end in different places for
  different scanners; `${x:-{}` does too (`reparse_envvar2.c:36-38`); an alias span
  ends early at the `)` of a case pattern. `AliasScan`: aliases expand inside
  `a=( ... )` (`alias_scan7.c:20-29`).
- `Words`: text, then a value that begins with a blank and a delimiter, gives an empty
  field too many (`split_envvar2.c:67`); `${x:-c}` unquoted with a blank in x is one
  field; `"${x[*]}"` of a scalar is empty; joining drops the separator after an empty
  first element; a quoted `$(...)` or `${...}` may still match as a pattern
  (`reparse_envvar_paren.c:82-96`, `glob_expand2.c:28`, against
  `glob_tokenizer.c:33-34`); braces in a value of the source are lexed again.
- `Pattern`, `ParamExp`, `Glob`: `word_to_pattern.c` does not quote `( ) |`; `*` steps
  bytes; `[]a]` and `[b-a]` differ between the two matchers; `**/` emits files and
  duplicates; a run of stars swallows `*( )`; `${v/*(a)/x}` fuses with the star that
  anywhere-matching puts in front (`expand_param_subst3.c:35-38`).
- `Brace`: `a{b,c}{,}` treats its empty alternatives otherwise than bash
  (`brace_expand.c:38-40`), `${...}` with a quoted brace is misread, `{1...2}` is a
  sequence.
- `Arrays`: `x=a; x[0]+=b` is b (`subscript_append.c:35-55`, against its comment
  :16-29); a negative subscript counts elements; `unset a[i]` and `${a[i]}` read i
  differently under zsh; `a=("[0]=x")` sets element 0; `a[lo,hi]=( )` pads.
- `Arith`: a subscript in an operand that is not evaluated keeps its side effects.
- `EnvTable`: a ring of references recurses without end; a name that is twice in the
  inherited environment is unset once.
- `CmdHash`: relative directories in PATH, `type` and `which` trust the cache without
  looking at PATH; `return` in `~/.profile` is an error (`profile.c:52-63`); empty
  components of PATH and CDPATH are dropped.
- `Cwd`: `cd nonexistent/..` succeeds; pushd and popd run no chpwd hooks; popd of a
  removed directory loses its entry.
- `GitScan`: a scan begun before the last command shows until the next prompt; when
  the scanner cannot be started the cache is shown as a clean tree.
- `History`: `history -s x; history -a` with HISTFILE unset never saves x; one failed
  write ends the streaming of the session; a start-up trim overwrites what other
  sessions append meanwhile.
- `Redir`: the three uses under `Meant`; `11>f1 10>f2`; descriptors 3 to 9 opened by a
  redirection of a builtin, a function or a compound stay open; `>&file` ignores
  noclobber; a function called with `<(cmd)` has it closed before its body begins
  (`execute_simple_command.c:41`).

## 5. Proofs

Sizes are arbitrary in every theorem: slots, children, ring entries, stages, programs,
repositories, commands, directories, files. The constants' named assumptions
(`JobControlAssumption`, `JobMaxAssumption`, `ShellExecAssumption`, ...) say that sizes
are positive numbers and switches Booleans, and that a program is a tree over a set of
nodes (`Nodes`, so that subtrees of subtrees are nodes without an induction). Anything
more is a named hypothesis of the theorem, and the table says what fails without it.
Every invariant was checked by TLC on a run of its module before it was proved.

| Theorem | Says | Hypotheses beyond the assumptions | Invariant |
|---|---|---|---|
| `JobControl_proofs!Typed`, `WellFormed` | `TypeOK`, `TableWellFormed` | - | `IInv` |
| `JobControl_proofs!LoopsCompute` | `LoopsAgree` | - | `IInv` (its `Good`) |
| `JobControl_proofs!StatusIsTold`, `EntriesAreTrue` | `StatusTold`, `EntriesTrue` | `Plain` | `IInv /\ TInv` |
| `JobControl_proofs!NothingIsLost` | `NothingLost` | `Plain`, `Roomy` | and `KInv` |
| `JobControl_proofs!CurrentIsElected` | `CurrentElected` | fg of no finished job | `IInv /\ EInv` |
| `JobControl_proofs!AsksTwice`, `GuardIsHonest`, `ExitIsHonest` | the two halves of `ExitHonest`, and both | -, `Plain`, `Plain` | `WarningAges`; `TInv /\ XInv` |
| `ShellExec_proofs!CountersArePaired` | `CountersPaired` | - | `CInv` |
| `ShellExec_proofs!FlagsAreSound` | `FlagsSound` | `Orderly`, `MildTraps` | `FInv` |
| `VarScope_proofs!ScopesStacked`, `ExportIsKept` | the part of `TableLayered` about types and layers; `ExportSticks` | - | `Sound` |
| `VarScope_proofs!TableIsLayered` | `TableLayered` | no `repeated`, no `valueless`, `ReadsNothingRefused` | `Sound` |
| `VarScope_proofs!ScopesAreDynamic` | `DynamicScoping` | none of the five uses of `Unusual` | `Sound /\ Kept` |
| `FuncTable_proofs!CallsAreSound` | its four properties | - | `FInv` of that module |
| `MCTables_proofs!CallsStaySound` | `CallsKeepTheirOwn` | - | the same |
| `MCTables_proofs!StarStaysTrue` | `StarTrue` | `TreesOfLines`, `NoSubshell` | `GInv` |
| `MCTables_proofs!HashStaysFresh`, `CommandVStaysRight` | `HashNeverStale`; its half about `command -v` | `HashedLate`; `NoDirectories` for the first | `HInv` |
| `MCTables_proofs!EnvironmentStaysTrue` | `EnvironmentTrue` | `Setting` | `EnvInv` of `EnvTable_proofs` |
| `Cwd_proofs!PlacesAreNamed`, `MCTables_proofs!PlaceStaysTrue` | `PlaceHolds` | `~LogicalReader` | `DInv` of `Cwd_proofs` |
| `MCTables_proofs!OptionsStayOnce` | `OptionsOnce` | `Liberties = {}` | `OInv` |
| `MCTables_proofs!BinaryStaysWhole` | `BinaryWhole` | `Alone` | `UInv` |

Why each invariant is what it is:

- `IInv`: `KernelOK` (types of the processes), `Good` (unique numbers, exact count,
  markers on jobs), `Remembers` (the ring), `PlaceOK` (what the program counter says
  about `cursor`, `target`, `stages`, `todo`), `ShellOK`, `HistoryOK`.
  `TableWellFormed` is not inductive: `PollSlot` writes through `cursor` and
  `fg_wait_result` through `target`, so these must point into the table (`PlaceOK`), and
  `job_add` writes a group that must be positive for the slot to count as taken
  (`KernelOK`). One lemma for each action, and one for each operation of the table: the
  next number is fresh (`NextIdFresh`), the elected job exists (`LiveIdElects`), removal
  keeps the count exact (`RemoveOK`).
- `TInv`: an entry of the table is about the leader of one group; when it says the job
  is over, the process was collected and left that word; when it does not, the process is
  still to be collected (`JobTrue`). That needs one entry for a group (`Distinct`), a
  truthful ring, and that the process between its fork and its entry, or between its fork
  and its wait, has been collected by nobody else (`InHand`): four callers of waitpid
  meet in this last part.
- `KInv`: every push into the ring is paid for by a process that is collected or printed
  for the first time, so the ring cannot wrap before it has 2 * NPids entries (`Room`,
  a count); and whoever can be asked about is in it (`Recalled`).
- `EInv`: while a job is unfinished a current one is marked; it needs that no death is
  filed as a stop (`Words`), for a job that comes back to life would not be elected.
- `XInv`: while the guard polls, every slot behind the poll has been told of its stop and
  every slot ahead will be (`Owned`); and a stopped process has no continuation left to
  report (`Halted`), or the poll would take the stop back.
- `LoopsCompute` needs of a table what `Good` says of it. After i turns a search has what
  it looks for among the first i slots (`HighestTo`, `BestTo`, `NextTo`). A walk over the
  numbers (`jobs`, the first unfinished job) goes up with every step, and there are no
  more numbers than slots, so it passes all of them (`Rank`, `Below`). After i turns a
  purge has made the table that one removal of all the finished jobs of the first i slots
  makes (`RemoveOneMore`): an election looks only at jobs that are alive, so removing a
  finished job changes nobody's chances, and a '-' whose job goes later is handed on then
  to the one it would have gone to before.
- `CInv`: the counters are the number of frames of each kind. Popping a frame is exact
  only if a RETURN trap lies on its call and a signal trap on its list (`Over`), and if
  the walk never goes on in an empty stack (`Control`).
- `FInv`: `FlagsSound` speaks of the flags there are now, but a cleanup puts flags away
  and a trap body runs on top of flags that are not its own, so the invariant says of
  every frame on the stack what may come back to the stack under it (`Own`): the flags an
  `always` block has parked are for loops and a call under it, what a list has still to
  run may run there, a call that has returned has its flag on the way to it (`Owed`). A
  stack says four things about flags: whether a trap body is on it, whether it has a
  place that lets no flag out, whether a call is above every such place, and whether a
  call on it is owed one. One lemma says what a frame on top makes of each (`Seen`), and
  from there on every action is a frame that goes on (`OnPush`, `OnTrap`) or comes off
  (`Off`, `OffCleanup`, `OffCall`, `OffTrap`, `OffReturn`).
- `Kept`: a save says that its name existed exactly when it holds a value, and the saves of
  a prefix have no depth. With `Sound` it is all that dynamic scoping needs, for `Scope` is
  a closed definition: a name means what the lowest layer that hides it saved
  (`MeantHidden`) or what the table holds (`MeantOpen`), and a step touches one layer. Its
  proof is in two halves: what a step does to the layers, for any layers (`WriteSim`,
  `CallSim`, `ReturnSim`, `LocalSim`, `RemoveSim`), and what each command does to the
  saves (`CallLayers`, `ReturnLayers`, `LocalLayers`, `CutLayers`; `BackFrom` says which
  save of a name has the last word when a list of them is put back).
- `GInv`: what the prompt has read, what is in the pipe and what the scanner has still to
  write are together the answer (`InFlight`), as long as nothing the shell knows of
  touched the tree; what was published is the answer (`Published`). The cut of the pipe
  is arbitrary because the bits of two parts are the bits of the whole (`FeedOfBoth`).
- `HInv`: what is remembered was found under the PATH remembered with it (`FoundThere`),
  and between the fork and the look-up the shell has that PATH (`InStep`).
- `Sound`: the records are records and the saves of a call lie above those of its callers
  (`Layered`), which every loop over a list of saves keeps because it puts back and
  takes away at the top. `ExportSticks` compares two states, so its proof follows a record
  through the loops: what a loop starts from shows the name (`Shown`), and a save of a name
  that was there puts it back exported (`Known`). For lists of assignments, two loops that
  run in opposite directions make the same records (`Made`), the staged one because each
  right-hand side was read when all before it were in place (`StagedAs`).
- `FInv` of `FuncTable_proofs`: the bodies that are alive are those of the table and those
  that wait, and none waits when no call is left (`Right`); the index has the place of
  every name (`Tells`), though an `unset` moves all that follow; the first frame has the
  dialect that was asked for (`ModesHold`), whatever the frames above it switched; and
  FUNCNAME is stale only when it is marked so (`FuncnameHolds`).
- `EnvInv`: unless the index is to be built again, there is for every record a distance
  from its own slot at which it was put; all slots before it on that walk are taken, the
  slots taken are those of the records, and of two records with one hash the earlier lies
  nearer (`Placed`). A search stops at the first slot of the record's name or at a free
  one, so the distances say what it answers (`HitsAre`, `FindIs`). A walk comes to every
  slot once (`RoundOnce`) and there are fewer records than slots, so an insertion ends
  (`SlotFree`, `GapIs`) and disturbs no earlier walk (`PutKeeps`); building the index again is a fold
  of insertions (`ResetIs`), and the doubled capacity has room for it (`RoomIs`). The rest says
  that each cell has the value it was last given (`Told`) and that a reference leads to no
  other (`OneHop`), so that two walks which differ in length end in the same place.
- `DInv`: `NamesResolve` is not inductive, for a directory may be removed and made again.
  What is kept of every place (`Spot`) is that it is a directory there is, under its true
  name, or one that is gone and then a leaf; and of the text of the shell that it has no
  `.` and no `..` (`Says`), so that removing an empty directory changes where it leads
  only if it led there (`NamesAfterRmdir`): with a `..` in it the text would pass through
  a directory that is not where it ends. Where a path leads is a fold of steps, so what
  holds of each step holds of the walk (`ResolveWalks`): the logical path of a cd has no
  `..` left (`Pushes`), the hooks are one cd after another (`HookRuns`), and a directory is
  found under its own name (`NamesItself`), which is why popd and the reader's pipe may
  carry names. `SentOK` says that a reader no widget moved sends what the shell has
  already, which is false of a shell that stands in a link.
- `OInv`: what a scan has reported and what is left to report - the rest of the word
  getopts is in, then the words after it - make what the arguments mean (`ScanOK`), for the
  scan that goes on and for the one a function interrupted (`Aside`). `Meaning` is a
  recursion from a word to the next, so that it exists is proved first, from the last word
  back (`MeansExists`, `MeaningUnfolds`); then the rest of a word is taken apart letter by
  letter (`RestFlag`, `RestTaking`) as the code does. The letter getopts keeps is used only
  while the address of OPTIND is the one it left, and an address the heap gives again would
  revive it in another word: `Addressed` says that the letter is then the first of its
  word, which needs that a script writes OPTIND once between two calls, and that a function
  with an OPTIND of its own is called between two words.
- `UInv`: the download is never the installed file (`Placed`), and what stood there when
  the update began stands there until it is replaced (`Replacing`); an update that fails
  from then on ends with 5 or 6 (`OnToProof`, `ProvesOrSays5`).

Why each hypothesis is needed; the counterexamples are TLC's, with the constants of the
run and the one named changed:

| Hypothesis | Stands for | Without it |
|---|---|---|
| `Plain`: `MaxStages <= 1` | commands in the foreground are no pipelines | `MaxStages = 2` violates `StatusTold`, `EntriesTrue`, `NothingLost` and `GuardHonest`: ^Z files one job for each stage (section 4). `CurrentElected` holds, and needs no such hypothesis |
| `Plain`: `~FgFinished` | no fg of a job that is over | violates `StatusTold`, `EntriesTrue` and `CurrentElected`: fg reads a status no waitpid wrote. `NothingLost` and `ExitHonest` hold in the instance; their proofs rest on `TInv`, which does not |
| `Roomy`: `RingSize >= 2 * NPids` | fewer processes than the ring forgets | rings of 1 and 2 for two processes violate `NothingLost`; one of 3 does not in that instance. With `BG_DONE_MAX` 128 the theorem covers 64 background processes that nobody waits for; past that the ring forgets by design |
| `Orderly`: no flag out of a condition or a cleanup | `while`, `if` and `always` keep break, continue and return to their bodies | `until break` violates `FlagsHaveTargets` (the run break_in_condition); `{ break; } always { continue; }` violates it too, and `{ continue; } always { return; }` `NothingWhileUnwinding` |
| `Orderly`: no flag out of an operand that another follows | the way out is the last of an and-or list | `break && cmd` violates `NothingWhileUnwinding` (section 4) |
| `MildTraps`: bodies of commands, lists and ifs | a trap body leaves no loop, call or shell | the signal trap `break` violates `FlagsHaveTargets` in a condition; a RETURN trap that exits, with an EXIT trap, violates `NothingWhileUnwinding`. Loops, `always` and eval in a body violate nothing in the instances: there the hypothesis is stronger than it need be |
| `MildTraps`: who returns traps no signal | - | a signal right after `return` violates `ReturnReturns` (section 4) |
| `NoSubshell` | no command changes a tree in a subshell | the generation rises in the child alone (section 2) |
| `HashedLate` | `hash name` is not the first thing after PATH changed | the name is filed under the old directories (section 2) |
| `NoDirectories` | no directory where a command was | access(2) says a directory may be executed, and the child takes it |
| no `repeated` | no name twice in one list | `x=1 x=2` leaves 1 (section 2) |
| no `valueless` | no name that is exported without a value | its save puts an empty string back (section 2) |
| no `local_prefix`, `redeclared`, `under_prefix` | no `x=1 local x`; no `unset` of a caller's local that was declared twice or that a later prefix hides | the name comes back with the value of another scope (section 2) |
| `ReadsNothingRefused` | no list reads a name whose assignment it was refused | after `readonly x`, `x=1 y=$x` gives y the refused 1: the list is staged as if x took it (`expand_simple_cmd_assignment.c`) |
| `Setting`: `Chains = FALSE` | no reference names a reference | a write follows one step and a read all of them (section 2) |
| `Setting`: `Inherits` | the inherited environment names a variable once | `unset` takes the first record, and the second shows (section 4) |
| `Setting`: `NamesOk` | scripts write no name the shell answers for itself | `RANDOM`, `SECONDS` and their kin read back what the shell computes |
| `~LogicalReader` | a shell in a symbolic link does not read by a forked reader | reading a line moves `$PWD` (section 2) |
| `Liberties = {}` | OPTIND is not written twice before the next getopts, not made local in the middle of a word, and the arguments are not cut short under the scan | each of the three skips a letter or reads past the word (section 2) |
| `Alone` | one updater | two write one file (section 2) |

`TreeStands` is a tree as a kernel has them: closed under parents, no link where a directory
is, and what other processes remove is empty. The rest of `Setting`, `WordsTyped`, `GivenOptions`, `TreesOfLines`, `Named`, `ScriptsName` and `Numbered` say that the values of the constants are of the
kinds the module speaks of (names with a hash, arguments that are words, lines git prints, sequences of directories, names that are not empty, numbers of files).

Model-checked only, and why:

- Liveness (`WaitReturns`, `SessionMovesOn`, `UnwindingEnds`): the prover has no ENABLED.
- `NoSilentEnd`: it needs the invariant that a finished job marked as notified was printed
  or handed out, through every loop that prints.
- The refinement `Refines`: its map filters a stack of frames, and what that computes for
  every stack is an induction over the stack.
- `EntriesKept`: `History` uses RECURSIVE operators.
- The algorithms of `MCLanguage`: most are RECURSIVE operators, which the arithmetic
  backend refuses.

## 6. Not modelled

- The terminal: who owns it, termios, readline, key bindings, the banner. Calls into
  the kernel and a library, with no state of the shell beside `fg_pgid`.
- `select`, C-style `for`, ^C unwinding, DEBUG traps, coprocess jobs.
- The text of messages, `printf`, `test`, `read`, `help`, completion, the rest of the
  prompt: formatting.
- The zsh flags and modifiers of `${(...)}`; qualifiers on owner, size and time.
- Start-up: options of the command line, which rc files are read, the oh-my-zsh shim.
- The background check for updates: its claim and its state file (two reclaimers of
  a stale claim, a shared `state.new`) would be a module beside `Update`.
- The arenas.

## 7. Plan

1. The claim and the state file of the background update check.
2. The terminal hand-over beside `JobControl`, if its kernel side can be kept small.
