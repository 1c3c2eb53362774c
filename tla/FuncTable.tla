------------------------------ MODULE FuncTable -----------------------------
(***************************************************************************)
(* The table of functions, its hash index, and the stack of frames: one    *)
(* for every call and for every file being sourced.  A call walks the very *)
(* tree the table holds, so a body that is redefined or unset while calls  *)
(* are in progress is retired, not freed.  A frame also keeps the options  *)
(* and the dialect to go back to, and names the call for FUNCNAME, which   *)
(* is only rebuilt when it is read.                                        *)
(***************************************************************************)
EXTENDS Naturals, FiniteSetsExt, SequencesExt

CONSTANTS
  Functions_,     \* the names functions are given
  Files,          \* the kinds of files a script sources, "zsh" for a .zsh file
  Scripts,        \* what a script does: the definitions and switches it uses
  FramesShown,    \* the most frames FUNCNAME lists (64 in the code)
  BodiesMax       \* bound on the trees alive at once; script.frames bounds the frames

VARIABLES
  functions,      \* the table: records of name, body, file and dialect
  func_index,     \* name -> its place in the table plus one, or 0
  heap,           \* the bodies that have not been freed
  dead_funcs,     \* the bodies that wait for the calls to end
  call_frames,    \* the open frames, newest last
  setopt,         \* the options that are bits, the zsh dialect among them
  cells,          \* the options that are flags of their own
  glob_cells,     \* the glob layer's copy of the options it obeys
  frames_dirty, funcname,   \* FUNCNAME as the table of variables holds it
  asked,          \* ghost: the dialect last asked for by name
  script          \* the script that runs, one of Scripts

tree_vars == <<functions, func_index, heap, dead_funcs>>
mode_vars == <<setopt, cells, glob_cells, asked>>
name_vars == <<frames_dirty, funcname>>
vars == <<tree_vars, call_frames, mode_vars, name_vars, script>>

-----------------------------------------------------------------------------
(* Frames and modes.                                                       *)

Calls == {i \in DOMAIN call_frames : call_frames[i].func # ""}
func_depth == Cardinality(Calls)
zsh_mode == "zsh" \in setopt
With(set, o, on) == IF on THEN set \cup {o} ELSE set \ {o}

add_name(names, n) == IF n = "" THEN names ELSE << n >> \o names

frames_collect(frames) ==
  LET names == FoldLeft(add_name, << >>, [i \in DOMAIN frames |-> frames[i].func])
  IN  SubSeq(names, 1, Min({Len(names), FramesShown}))

frame_func_name == IF Calls = {} THEN "" ELSE call_frames[Max(Calls)].func

Frame(func, tree) ==
  [func |-> func, tree |-> tree, zsh |-> zsh_mode, setopt |-> setopt,
   localised |-> FALSE, cells |-> cells]

(* The mode changes together with the glob layer's copy of it.             *)
zsh_mode_swap(opts, on) == /\ setopt' = With(opts, "zsh", on)
                           /\ glob_cells' = With(glob_cells, "zsh", on)

frame_push(func, tree, zsh) ==
  /\ Len(call_frames) < script.frames
  /\ call_frames' = Append(call_frames, Frame(func, tree))
  /\ frames_dirty' = TRUE
  /\ zsh_mode_swap(setopt, zsh)
  /\ UNCHANGED <<funcname, cells, asked>>

(* Mutant: the dialect goes back only with the other options.              *)
frame_restore_opts_local(f) ==
  IF "localoptions" \in setopt THEN zsh_mode_swap(f.setopt, f.zsh)
  ELSE UNCHANGED <<setopt, glob_cells>>

(* The bits come back when localoptions is set at the end; the dialect     *)
(* comes back always.                                                      *)
frame_restore_opts(f) ==
  zsh_mode_swap(IF "localoptions" \in setopt THEN f.setopt ELSE setopt, f.zsh)

(* Mutant: leaving a frame does not spoil FUNCNAME.                        *)
frame_pop_clean ==
  /\ frame_restore_opts(Last(call_frames))
  /\ call_frames' = Front(call_frames)
  /\ UNCHANGED <<frames_dirty, funcname, cells, asked>>

frame_pop ==
  /\ frame_restore_opts(Last(call_frames))
  /\ call_frames' = Front(call_frames)
  /\ frames_dirty' = TRUE
  /\ UNCHANGED <<funcname, cells, asked>>

-----------------------------------------------------------------------------
(* Bodies.  T is the table a command works on.                             *)

Table == [funcs |-> functions, index |-> func_index, heap |-> heap, dead |-> dead_funcs]

Becomes(T) == /\ functions' = T.funcs /\ func_index' = T.index
              /\ heap' = T.heap /\ dead_funcs' = T.dead

(* Mutant: a body goes at once.                                            *)
retire_body_now(T, body) == [T EXCEPT !.heap = @ \ {body}]

retire_body(T, body) ==
  IF func_depth = 0 THEN [T EXCEPT !.heap = @ \ {body}]
  ELSE [T EXCEPT !.dead = @ \cup {body}]

(* Called with the depth there is once the call has been left.             *)
drain_dead_funcs(T, depth) ==
  IF depth > 0 THEN T ELSE [T EXCEPT !.heap = @ \ T.dead, !.dead = {}]

(* A number no tree in sight bears, the freed ones still walked included.  *)
Walked == {call_frames[i].tree : i \in DOMAIN call_frames}
Fresh(T) ==
  LET taken == T.heap \cup Walked
  IN  Min((1 .. Cardinality(taken) + 1) \ taken)
deep_clone_ast(T) == [T EXCEPT !.heap = @ \cup {Fresh(T)}]

func_index_rebuild(funcs) ==
  [n \in Functions_ |-> SelectLastInSeq(funcs, LAMBDA f : f.name = n)]

func_index_set(T, name, i) == [T EXCEPT !.index[name] = i]

(* 0 for an entry past the end of the table.                               *)
func_index_get(T, name) ==
  IF T.index[name] > Len(T.funcs) THEN 0 ELSE T.index[name]

func_lookup(T, name) == func_index_get(T, name)

(* Mutant: unset leaves the index alone.                                   *)
unset_function_indexed(T, name) ==
  LET i == SelectInSeq(T.funcs, LAMBDA f : f.name = name)
  IN  IF i = 0 THEN T
      ELSE [retire_body(T, T.funcs[i].body) EXCEPT !.funcs = RemoveAt(@, i)]

unset_function(T, name) ==
  LET i == SelectInSeq(T.funcs, LAMBDA f : f.name = name)
      without == [retire_body(T, T.funcs[i].body) EXCEPT !.funcs = RemoveAt(@, i)]
  IN  IF i = 0 THEN T
      ELSE [without EXCEPT !.index = func_index_rebuild(without.funcs)]

(* The old body is retired before the new one is copied from the tree the  *)
(* definition stands in, which may be the old body itself.                 *)
store_function(T, name) ==
  LET i == func_lookup(T, name)
      R == IF i = 0 THEN T ELSE retire_body(T, T.funcs[i].body)
      C == deep_clone_ast(R)
      new == [name |-> name, body |-> Fresh(R), zsh |-> zsh_mode]
  IN  IF i # 0 THEN [C EXCEPT !.funcs[i] = new]
      ELSE func_index_set([C EXCEPT !.funcs = Append(@, new)], name, Len(C.funcs) + 1)

zfunc_define_all(T, names) == FoldLeft(store_function, T, names)

-----------------------------------------------------------------------------
(* What a script does.                                                     *)

(* `f() ...`; in the zsh dialect the name may be a list or have braces.    *)
execute_func_def(names) ==
  /\ zsh_mode \/ Len(names) = 1
  /\ Becomes(zfunc_define_all(Table, names))
  /\ Cardinality(heap') <= BodiesMax
  /\ UNCHANGED <<call_frames, mode_vars, name_vars>>

unset_operands(name) ==
  /\ Becomes(unset_function(Table, name))
  /\ UNCHANGED <<call_frames, mode_vars, name_vars>>

execute_func_call(name) ==
  LET i == func_lookup(Table, name)
  IN  /\ i # 0
      /\ frame_push(name, functions[i].body, functions[i].zsh)
      /\ UNCHANGED tree_vars

(* `() { ... }` walks a part of the tree it stands in.                     *)
execute_anon_func ==
  /\ zsh_mode
  /\ frame_push("(anonymous)",
                IF call_frames = << >> THEN 0 ELSE Last(call_frames).tree, TRUE)
  /\ UNCHANGED tree_vars

(* `. file`, and the files of the start: a .zsh file is read in its dialect *)
(* and a file leaves its own tree alone.                                         *)
run_source(file) ==
  /\ frame_push("", 0, zsh_mode \/ file = "zsh")
  /\ UNCHANGED tree_vars

(* The end of a call or of a file.                                         *)
Leave ==
  /\ call_frames # << >>
  /\ frame_pop
  /\ IF Last(call_frames).func = "" THEN UNCHANGED tree_vars
     ELSE Becomes(drain_dead_funcs(Table, func_depth - 1))

(* Mutant: a request holds until the frame it was made in is left.         *)
zsh_mode_pin_swap(on) == zsh_mode_swap(setopt, on) /\ UNCHANGED call_frames

(* A request by name rewrites what every open frame is to go back to.      *)
zsh_mode_pin(on) ==
  /\ zsh_mode_swap(setopt, on)
  /\ call_frames' = [i \in DOMAIN call_frames |->
       [call_frames[i] EXCEPT !.zsh = on, !.setopt = With(@, "zsh", on)]]

(* emulate zsh, emulate sh, with -L for the frame alone.                   *)
zsh_mode_req(on, local) ==
  /\ IF local THEN zsh_mode_swap(setopt, on) /\ UNCHANGED call_frames
     ELSE zsh_mode_pin(on)
  /\ asked' = IF local /\ call_frames # << >> THEN asked ELSE on
  /\ UNCHANGED <<cells, name_vars, tree_vars>>

(* setopt and unsetopt: localoptions and dotglob are bits, noglob a flag.  *)
zopt_own_bit(on) ==
  /\ setopt' = With(setopt, "localoptions", on)
  /\ call_frames' = IF on /\ call_frames # << >>
                    THEN [call_frames EXCEPT ![Len(call_frames)].localised = TRUE]
                    ELSE call_frames
  /\ UNCHANGED <<cells, glob_cells>>

zopt_shopt_bit(on) ==
  /\ setopt' = With(setopt, "dotglob", on)
  /\ glob_cells' = With(glob_cells, "dotglob", on)
  /\ UNCHANGED <<cells, call_frames>>

setopt_put(on) ==
  /\ cells' = With(cells, "noglob", on)
  /\ UNCHANGED <<setopt, glob_cells, call_frames>>

zopt_apply(o, on) == /\ \/ o = "localoptions" /\ zopt_own_bit(on)
                        \/ o = "dotglob" /\ zopt_shopt_bit(on)
                        \/ o = "noglob" /\ setopt_put(on)
                     /\ UNCHANGED <<asked, name_vars, tree_vars>>

(* The first read of FUNCNAME since a frame came or went builds it again.  *)
frames_sync ==
  /\ frames_dirty
  /\ frames_dirty' = FALSE
  /\ funcname' = frames_collect(call_frames)
  /\ UNCHANGED <<call_frames, mode_vars, tree_vars>>

Init ==
  /\ functions = << >> /\ func_index = [n \in Functions_ |-> 0]
  /\ heap = {} /\ dead_funcs = {}
  /\ call_frames = << >>
  /\ setopt = {} /\ cells = {} /\ glob_cells = {} /\ asked = FALSE
  /\ frames_dirty = FALSE /\ funcname = << >>
  /\ script \in Scripts

Step == \/ \E names \in script.defines : execute_func_def(names)
        \/ \E n \in script.unsets : unset_operands(n)
        \/ \E n \in Functions_ : execute_func_call(n)
        \/ execute_anon_func
        \/ \E file \in Files : run_source(file)
        \/ Leave
        \/ \E on, local \in BOOLEAN : zsh_mode_req(on, local)
        \/ \E o \in script.switches, on \in BOOLEAN : zopt_apply(o, on)
        \/ frames_sync

Next == Step /\ UNCHANGED script

Spec == Init /\ [][Next]_vars

-----------------------------------------------------------------------------
(* Whatever a function does to itself or to its callers' functions, every  *)
(* tree a call is walking is alive, and once no call is left only the      *)
(* bodies of the table are (func_retire.c: "free_ast would take those      *)
(* nodes out from under it").                                              *)
BodiesOutliveCalls ==
  /\ Walked \ {0} \subseteq heap
  /\ heap = dead_funcs \cup {functions[i].body : i \in DOMAIN functions}
  /\ func_depth = 0 => dead_funcs = {}

(* The index and the table never disagree about which definition a name    *)
(* has (func_index.c).                                                     *)
LookupAgrees ==
  \A n \in Functions_ :
    func_lookup(Table, n) = SelectInSeq(functions, LAMBDA f : f.name = n)

(* What FUNCNAME reads is the calls in progress, newest first, although it *)
(* is built only when it is read (call_frames.c).                          *)
FuncnameCurrent ==
  (IF frames_dirty THEN frames_collect(call_frames) ELSE funcname)
     = frames_collect(call_frames)

(* When no frame is open, the dialect is the one last asked for by name:   *)
(* no file and no function leaks its own, and no return undoes a request   *)
(* (zsh_mode2.c).  The glob layer always obeys the dialect there is.       *)
DialectKept == /\ call_frames = << >> => zsh_mode = asked
               /\ ("zsh" \in glob_cells) = zsh_mode

=============================================================================
