------------------------------- MODULE History -------------------------------
(***************************************************************************)
(* The history of several sessions over the same files                     *)
(* (infrastructure/history*.c, builtins/builtin_history*.c).  A session    *)
(* keeps hist_cmds and readline's mirror of it, the marks appended and     *)
(* readmark, and one descriptor it streams every line into, known by its   *)
(* number and by the identity of the file behind it.                       *)
(*   A file is a sequence of slots, one line each, and an identity is its  *)
(* path.  An entry is [line, held]: held, the files its line is in because *)
(* it was read from or written to them, is auxiliary, the code keeps no    *)
(* such thing.  Setting is what the variables of a session say.            *)
(***************************************************************************)
EXTENDS Integers, Sequences, FiniteSets, SequencesExt

CONSTANTS Sessions, Files, UserFile, None, Lines, Blank, Ignored, Settings, OldLines,
          HIST_MAX, BootsMax, CyclesMax, ForeignMax, BuiltinsMax
ASSUME HistoryAssumption == UserFile \notin Files /\ None \notin Files /\ Blank \subseteq Lines

VARIABLES disk,      \* file -> its lines
          pc,        \* session -> <<"off" | "load" | "rewrite" | "rc" | "prompt" | "running", slot>>
          hist,      \* session -> t_history
          rl,        \* session -> readline's list
          desc,      \* session -> the file the number append_fd is open on, or None
          setting,   \* session -> [HISTFILE, HISTSIZE, HISTFILESIZE, HISTCONTROL]
          line,      \* session -> the line read in this cycle, and whether it has here-documents
          used,      \* [boots, cycles, foreign, builtins]: what the bounds count
          skew       \* auxiliary, session -> what it did that the code answers wrongly
vars == <<disk, pc, hist, rl, desc, setting, line, used, skew>>

Inodes == Files \cup {UserFile}
Entry(l, held) == [line |-> l, held |-> held]
LinesOf(es) == [i \in DOMAIN es |-> es[i].line]
Fresh == [active |-> TRUE, recorded |-> FALSE, append |-> FALSE, ino |-> None, file |-> None,
          cmds |-> <<>>, appended |-> 0, readmark |-> 0]
NoLine == [text |-> None, hd |-> FALSE, runs |-> FALSE]

-----------------------------------------------------------------------------
\* the variables

get_hist_file_path(s) == IF setting[s].HISTFILE # None THEN setting[s].HISTFILE ELSE setting[s].HOME
hist_limit(v) ==                       \* unset, a number, or text that is none
    CASE v = "unset" -> HIST_MAX [] v = "junk" -> 0 [] v = "negative" -> -1 [] v = "one" -> 1 [] v = "two" -> 2
hist_control_has(s, word) ==
    \/ word \in setting[s].HISTCONTROL
    \/ word \in {"ignoredups", "ignorespace"} /\ "ignoreboth" \in setting[s].HISTCONTROL
hist_ignore_match(s, l, prev) == l \in Ignored \/ ("&" \in setting[s].HISTCONTROL /\ prev = {l})
hist_last(h) == IF h.cmds = <<>> THEN {} ELSE {Last(h.cmds).line}
worthy_of_being_remembered(s, h, l) ==
    /\ h.active
    /\ ~(l \in Blank /\ hist_control_has(s, "ignorespace"))
    /\ ~(hist_last(h) = {l} /\ hist_control_has(s, "ignoredups"))
    /\ ~hist_ignore_match(s, l, hist_last(h))

-----------------------------------------------------------------------------
\* the two lists: m is [h, rl]

\* mutant: the marks stay where they were
hist_drop_at_unmarked(m, i) ==
    [h |-> [m.h EXCEPT !.cmds = RemoveAt(@, i)], rl |-> RemoveAt(m.rl, i)]
hist_drop_at(m, i) ==
    [h |-> [m.h EXCEPT !.cmds = RemoveAt(@, i),
                       !.appended = IF @ >= i THEN @ - 1 ELSE @,
                       !.readmark = IF @ >= i THEN @ - 1 ELSE @],
     rl |-> RemoveAt(m.rl, i)]
RECURSIVE hist_erase_dups(_, _, _)
hist_erase_dups(m, l, i) ==            \* the last entry is not looked at
    IF i >= Len(m.h.cmds) THEN m
    ELSE IF m.h.cmds[i].line = l THEN hist_erase_dups(hist_drop_at(m, i), l, i)
    ELSE hist_erase_dups(m, l, i + 1)
RECURSIVE hist_trim_to_limit(_, _)
hist_trim_to_limit(m, lim) ==
    IF lim < 0 \/ Len(m.h.cmds) <= lim THEN m ELSE hist_trim_to_limit(hist_drop_at(m, 1), lim)
hist_push(m, e) ==
    [h |-> [m.h EXCEPT !.cmds = Append(@, e)], rl |-> IF m.h.active THEN Append(m.rl, e.line) ELSE m.rl]
Keep(s, m) == hist' = [hist EXCEPT ![s] = m.h] /\ rl' = [rl EXCEPT ![s] = m.rl]
Both(s) == [h |-> hist[s], rl |-> rl[s]]

-----------------------------------------------------------------------------
\* the descriptor: d is [h, at], at the file its number is open on

hist_open_append(h, path) == [h |-> [h EXCEPT !.append = TRUE, !.ino = path], at |-> path]
hist_fd_ours(h, at) == h.append /\ at = h.ino
\* mutant: the number is trusted as long as it is open
hist_append_fd_numbered(h, at) ==
    IF ~h.append \/ at # None THEN [h |-> h, at |-> at] ELSE hist_open_append(h, h.file)
hist_append_fd(h, at) ==
    CASE ~h.append \/ hist_fd_ours(h, at) -> [h |-> h, at |-> at]
      [] h.append /\ ~hist_fd_ours(h, at) /\ h.file = None -> [h |-> [h EXCEPT !.append = FALSE], at |-> at]
      [] h.append /\ ~hist_fd_ours(h, at) /\ h.file # None -> hist_open_append(h, h.file)
\* mutant: whatever the number is, it is closed
hist_close_append_blind(h, at) == [h |-> [h EXCEPT !.append = FALSE], at |-> None]
hist_close_append(h, at) ==
    [h |-> [h EXCEPT !.append = FALSE], at |-> IF hist_fd_ours(h, at) THEN None ELSE at]

(* The line goes to readline, the list and the file, in this order; then   *)
(* the older copies and the oldest lines go.  A write that fails ends the  *)
(* streaming for good.                                                     *)
append_hist_entry(s, l, fails, recorded) ==
    LET d == hist_append_fd(hist[s], desc[s])
        sent == d.h.append /\ ~fails
        e == Entry(l, IF sent THEN {d.at} ELSE {})
        c == IF d.h.append /\ fails THEN hist_close_append(d.h, d.at) ELSE d
        pushed == [h |-> [c.h EXCEPT !.cmds = Append(@, e), !.recorded = recorded], rl |-> Append(rl[s], l)]
        unique == IF hist_control_has(s, "erasedups") THEN hist_erase_dups(pushed, l, 1) ELSE pushed
    IN  [m |-> hist_trim_to_limit(unique, hist_limit(setting[s].HISTSIZE)), at |-> c.at,
         disk |-> IF sent THEN [disk EXCEPT ![d.at] = Append(@, l)] ELSE disk]
\* early is history_record before the line runs, late the one of manage_history,
\* which also takes the flag down
history_record(s, l, early, fails) ==
    IF hist[s].recorded \/ (early /\ l.hd) \/ l.text = None \/ ~worthy_of_being_remembered(s, hist[s], l.text)
    THEN [m |-> [Both(s) EXCEPT !.h.recorded = @ /\ early], at |-> desc[s], disk |-> disk]
    ELSE append_hist_entry(s, l.text, fails, early)
\* a write may fail where one is made
Recorded(s, out, fails) ==
    /\ fails => out.m.h.append # hist_append_fd(hist[s], desc[s]).h.append /\ used.foreign < ForeignMax
    /\ Keep(s, out.m) /\ desc' = [desc EXCEPT ![s] = out.at] /\ disk' = out.disk

-----------------------------------------------------------------------------
(* A session starts: it reads the file, keeps the newest lines, and when   *)
(* that dropped some it writes the file again, a line at a time and not in *)
(* append mode; init_history runs before the rc, hist_rehome after it.     *)

Bump(what) == used' = [used EXCEPT ![what] = @ + 1]
At(s, l) == pc[s][1] = l
Goto(s, l) == pc' = [pc EXCEPT ![s] = <<l, 0>>]
init_history(s, on) ==                 \* a script keeps no history, its t_history is all zero
    /\ At(s, "off") /\ used.boots < BootsMax /\ Bump("boots")
    /\ Keep(s, [h |-> [Fresh EXCEPT !.active = on, !.append = ~on], rl |-> <<>>])
    /\ desc' = [desc EXCEPT ![s] = None]
    /\ skew' = [skew EXCEPT ![s] = {}]
    /\ line' = [line EXCEPT ![s] = [NoLine EXCEPT !.runs = ~on]]
    /\ Goto(s, IF on THEN "load" ELSE "running") /\ UNCHANGED <<disk, setting>>

cap_history(es, lim) == IF lim < 0 \/ Len(es) <= lim THEN es ELSE SubSeq(es, Len(es) - lim + 1, Len(es))
parse_history_file(s) ==
    /\ At(s, "load")
    /\ LET f == get_hist_file_path(s)
           all == [i \in DOMAIN disk[f] |-> Entry(disk[f][i], {f})]
           kept == cap_history(all, hist_limit(setting[s].HISTFILESIZE))
           h == [hist[s] EXCEPT !.cmds = kept, !.appended = Len(kept), !.readmark = Len(kept)]
           open == hist_open_append([h EXCEPT !.file = f], f)
       IN  /\ rl' = [rl EXCEPT ![s] = LinesOf(kept)]
           /\ IF kept = all
              THEN /\ hist' = [hist EXCEPT ![s] = open.h] /\ desc' = [desc EXCEPT ![s] = open.at]
                   /\ Goto(s, IF hist[s].file = None THEN "rc" ELSE "prompt")
              ELSE hist' = [hist EXCEPT ![s] = [h EXCEPT !.ino = f]] /\ Goto(s, "rewrite") /\ UNCHANGED desc
    /\ UNCHANGED <<disk, setting, line, used, skew>>
Crossed(s) == [r \in Sessions |-> IF At(r, "rewrite") /\ r # s THEN skew[r] \cup {"crossed"} ELSE skew[r]]
\* the rewrite: the file is emptied, then line i goes to slot i whatever is there
Truncate(s) ==
    /\ pc[s] = <<"rewrite", 0>>
    /\ disk' = [disk EXCEPT ![hist[s].ino] = <<>>]
    /\ pc' = [pc EXCEPT ![s] = <<"rewrite", 1>>]
    /\ skew' = Crossed(s)
    /\ UNCHANGED <<hist, rl, desc, setting, line, used>>
Persist_append(s) ==                   \* mutant: in append mode
    /\ At(s, "rewrite") /\ pc[s][2] \in 1..Len(hist[s].cmds)
    /\ disk' = [disk EXCEPT ![hist[s].ino] = Append(@, hist[s].cmds[pc[s][2]].line)]
    /\ pc' = [pc EXCEPT ![s][2] = @ + 1] /\ UNCHANGED <<hist, rl, desc, setting, line, used, skew>>
Persist(s) ==
    /\ At(s, "rewrite") /\ pc[s][2] \in 1..Len(hist[s].cmds)
    /\ LET i == pc[s][2]
           l == hist[s].cmds[i].line
       IN  disk' = [disk EXCEPT ![hist[s].ino] = IF i <= Len(@) THEN [@ EXCEPT ![i] = l] ELSE Append(@, l)]
    /\ pc' = [pc EXCEPT ![s][2] = @ + 1] /\ UNCHANGED <<hist, rl, desc, setting, line, used, skew>>
OpenAppend(s) ==
    /\ pc[s] = <<"rewrite", Len(hist[s].cmds) + 1>>
    /\ LET open == hist_open_append([hist[s] EXCEPT !.file = hist[s].ino], hist[s].ino)
       IN  hist' = [hist EXCEPT ![s] = open.h] /\ desc' = [desc EXCEPT ![s] = open.at]
    /\ Goto(s, IF hist[s].file = None THEN "rc" ELSE "prompt")
    /\ UNCHANGED <<disk, rl, setting, line, used, skew>>
\* the rc may assign HISTFILE; then the session moves to the file it names
hist_rehome(s) ==
    /\ At(s, "rc")
    /\ \E f \in (Files \ {setting[s].HISTFILE}) \cup {None} :
         /\ setting' = [setting EXCEPT ![s].HISTFILE = IF f = None THEN @ ELSE f]
         /\ LET want == IF f = None THEN get_hist_file_path(s) ELSE f
                c == hist_close_append(hist[s], desc[s])
            IN  IF want = hist[s].file
                THEN Goto(s, "prompt") /\ UNCHANGED <<hist, rl, desc>>
                ELSE /\ Keep(s, [h |-> [c.h EXCEPT !.cmds = <<>>], rl |-> <<>>])
                     /\ desc' = [desc EXCEPT ![s] = c.at] /\ Goto(s, "load")
    /\ UNCHANGED <<disk, line, used, skew>>

-----------------------------------------------------------------------------
(* A cycle: the line is recorded before it runs, or after it when it has   *)
(* here-documents; what runs may be history itself, or a redirection of    *)
(* the number the shell streams into.                                      *)

Enter(s, l, fails) ==
    /\ At(s, "prompt") /\ used.cycles < CyclesMax
    /\ Recorded(s, history_record(s, l, TRUE, fails), fails)
    /\ line' = [line EXCEPT ![s] = l] /\ Goto(s, "running")
    /\ used' = [used EXCEPT !.cycles = @ + 1, !.foreign = IF fails THEN @ + 1 ELSE @]
    /\ UNCHANGED <<setting, skew>>
manage_history(s, fails) ==
    /\ At(s, "running") /\ hist[s].active
    /\ Recorded(s, history_record(s, line[s], FALSE, fails), fails)
    /\ line' = [line EXCEPT ![s] = NoLine] /\ Goto(s, "prompt")
    /\ used' = [used EXCEPT !.foreign = IF fails THEN @ + 1 ELSE @]
    /\ UNCHANGED <<setting, skew>>
exec_redirect(s) ==                    \* exec N>&- and exec N>>file, N being append_fd
    /\ At(s, "running") \/ At(s, "rc")
    /\ hist[s].append /\ desc[s] # None /\ used.foreign < ForeignMax
    /\ \E f \in Inodes \cup {None} : f # desc[s] /\ desc' = [desc EXCEPT ![s] = f]
    /\ Bump("foreign") /\ UNCHANGED <<disk, pc, hist, rl, setting, line, skew>>

-----------------------------------------------------------------------------
\* the builtin

hist_clear(m) == [h |-> [m.h EXCEPT !.cmds = <<>>, !.appended = 0], rl |-> <<>>]
hist_delete(m, arg) ==                 \* the marks are not moved
    LET len == Len(m.h.cmds)
        off == IF arg < 0 THEN arg + len + 1 ELSE arg
    IN  IF off \notin 1..len THEN m
        ELSE [h |-> [m.h EXCEPT !.cmds = RemoveAt(@, off)], rl |-> IF m.h.active THEN RemoveAt(m.rl, off) ELSE m.rl]
hist_store(m, l) == hist_push(m, Entry(l, {}))
hist_target(s, operand) ==
    CASE operand # None -> {operand}
      [] operand = None /\ setting[s].HISTFILE # None -> {setting[s].HISTFILE}
      [] operand = None /\ setting[s].HISTFILE = None /\ hist[s].active -> {get_hist_file_path(s)}
      [] OTHER -> {}
hist_streamed(s, h, operand) == operand = None /\ h.append /\ setting[s].HISTFILE = None
hist_write(m, f, from, truncate) ==    \* [m, text]: what the file becomes
    [m |-> [m EXCEPT !.h.cmds = [i \in DOMAIN @ |-> IF i > from THEN [@[i] EXCEPT !.held = @ \cup {f}] ELSE @[i]]],
     text |-> (IF truncate THEN <<>> ELSE disk[f]) \o LinesOf(SubSeq(m.h.cmds, from + 1, Len(m.h.cmds)))]
hist_read(m, f, skip) ==
    LET got == disk[f]
        all == FoldLeft(LAMBDA n, l : hist_push(n, Entry(l, {f})), m, SubSeq(got, skip + 1, Len(got)))
    IN  [m |-> [all EXCEPT !.h.readmark = Len(got)], text |-> got]
hist_fileop(s, m, op, operand, f) ==
    LET len == Len(m.h.cmds)
        from == IF m.h.appended > len THEN len ELSE m.h.appended
        out == CASE op = "w" -> hist_write(m, f, 0, TRUE)
                 [] op = "a" /\ ~hist_streamed(s, m.h, operand) -> hist_write(m, f, from, FALSE)
                 [] op = "a" /\ hist_streamed(s, m.h, operand) -> [m |-> m, text |-> disk[f]]
                 [] op = "r" -> hist_read(m, f, 0)
                 [] op = "n" -> hist_read(m, f, m.h.readmark)
    IN  IF op = "a" THEN [out EXCEPT !.m.h.appended = len] ELSE out
\* -c comes first, then one of the others
builtin_history(s, clear) ==
    /\ At(s, "running") /\ line[s].runs /\ used.builtins < BuiltinsMax /\ Bump("builtins") /\ line' = [line EXCEPT ![s].runs = FALSE]
    /\ LET m == IF clear THEN hist_clear(Both(s)) ELSE Both(s) IN
       \/ /\ ~clear /\ \E arg \in {1, 2, -1} :
               /\ Keep(s, hist_delete(m, arg))
               /\ skew' = [skew EXCEPT ![s] = IF hist_delete(m, arg) # m THEN @ \cup {"deleted"} ELSE @]
          /\ UNCHANGED disk
       \/ clear /\ Keep(s, m) /\ UNCHANGED <<disk, skew>>
       \/ ~clear /\ \E l \in Lines : Keep(s, hist_store(m, l)) /\ UNCHANGED <<disk, skew>>
       \/ \E op \in {"a", "n", "r", "w"} \ (IF clear THEN {"a", "w"} ELSE {}), operand \in Files \cup {None} :
             \E f \in hist_target(s, operand) :
                LET out == hist_fileop(s, m, op, operand, f) IN
                /\ Keep(s, out.m) /\ disk' = [disk EXCEPT ![f] = out.text]
                /\ skew' = [(IF op = "w" THEN Crossed(s) ELSE skew) EXCEPT ![s] =
                                              IF op = "a" /\ hist_streamed(s, m.h, operand)
                                                 /\ \E i \in m.h.appended + 1..Len(m.h.cmds) : m.h.cmds[i].held = {}
                                              THEN @ \cup {"streamed"} ELSE @]
    /\ UNCHANGED <<pc, desc, setting>>

\* HISTFILE assigned by a command: the builtin sees it, the session does not move
assign_histfile(s) ==
    /\ At(s, "running") /\ used.foreign < ForeignMax /\ Bump("foreign")
    /\ \E f \in Files \cup {None} : f # setting[s].HISTFILE /\ setting' = [setting EXCEPT ![s].HISTFILE = f]
    /\ UNCHANGED <<disk, pc, hist, rl, desc, line, skew>>
Leave(s) == /\ Goto(s, "off") /\ line' = [line EXCEPT ![s] = NoLine] /\ skew' = [skew EXCEPT ![s] = {}]
            /\ Keep(s, [h |-> Fresh, rl |-> <<>>]) /\ desc' = [desc EXCEPT ![s] = None]
            /\ UNCHANGED <<setting, used>>
exit_clean(s) ==                       \* by way of manage_history
    At(s, "running") /\ Leave(s) /\ disk' = history_record(s, line[s], FALSE, FALSE).disk
killed(s) == ~At(s, "off") /\ Leave(s) /\ UNCHANGED disk

Init == /\ \E old \in OldLines : disk = [f \in Inodes |-> IF f = UserFile THEN <<>> ELSE old]
        /\ pc = [s \in Sessions |-> <<"off", 0>>] /\ hist = [s \in Sessions |-> Fresh]
        /\ rl = [s \in Sessions |-> <<>>] /\ desc = [s \in Sessions |-> None]
        /\ \E v \in Settings : setting = [s \in Sessions |-> v] /\ line = [s \in Sessions |-> NoLine]
        /\ used = [boots |-> 0, cycles |-> 0, foreign |-> 0, builtins |-> 0]
        /\ skew = [s \in Sessions |-> {}]
Next == \E s \in Sessions :
    \/ \E on \in BOOLEAN : init_history(s, on)
    \/ parse_history_file(s) \/ Truncate(s) \/ Persist(s) \/ OpenAppend(s) \/ hist_rehome(s)
    \/ \E l \in Lines, hd, fails \in BOOLEAN : Enter(s, [text |-> l, hd |-> hd, runs |-> TRUE], fails)
    \/ \E fails \in BOOLEAN : manage_history(s, fails)
    \/ \E clear \in BOOLEAN : builtin_history(s, clear)
    \/ exec_redirect(s) \/ assign_histfile(s) \/ exit_clean(s) \/ killed(s)
Spec == Init /\ [][Next]_vars

-----------------------------------------------------------------------------
\* readline's list is hist_cmds, so that the arrow keys and history agree, and
\* "everything below" the mark appended "is already on disk" (history_size.c)
\* unless history -d moved an entry under it, or -a took as streamed what was not
ListsAgree ==
    \A s \in Sessions : hist[s].active /\ ~At(s, "off") => rl[s] = LinesOf(hist[s].cmds)
SavedBelow(s) == \A i \in 1..Len(hist[s].cmds) : i <= hist[s].appended => hist[s].cmds[i].held # {}
MarksFollow == ListsAgree /\ \A s \in Sessions : skew[s] \cap {"deleted", "streamed"} = {} => SavedBelow(s)

\* a recorded line goes to the end of the session's own history file and to no
\* other file, and the shell never closes a number that the user has taken
OwnFileOnly ==
    [][\A s \in Sessions :
         /\ At(s, "prompt") /\ pc'[s][1] = "running" =>
              disk' \in {disk} \cup (IF hist'[s].append THEN {[disk EXCEPT ![hist[s].file] = Append(@, line'[s].text)]} ELSE {})
         /\ At(s, "prompt") /\ hist'[s].recorded /\ hist'[s].append => disk' # disk
         /\ hist[s].append /\ ~hist'[s].append /\ pc'[s][1] # "off" /\ desc'[s] = None => desc[s] \in {None, hist[s].file}]_vars

\* a start-up trim keeps the newest lines: while it rewrites the file, and when it is done, the newest lines
\* are at its head, whatever the other sessions append meanwhile
Newest(s) == SubSeq(LinesOf(hist[s].cmds), 1, pc[s][2] - 1)
TrimKeepsNewest ==
    \A s \in Sessions : At(s, "rewrite") /\ pc[s][2] > 0 /\ "crossed" \notin skew[s] => IsPrefix(Newest(s), disk[hist[s].ino])

\* what the list, its marks and a trim keep is what was typed (history_size.c, history2.c)
EntriesKept == MarksFollow /\ TrimKeepsNewest

-----------------------------------------------------------------------------
\* what History.cfg gives it: two sessions, or one session and a script, over two files

Vars(file, size, filesize, control) ==
    [HOME |-> "f", HISTFILE |-> file, HISTSIZE |-> size, HISTFILESIZE |-> filesize, HISTCONTROL |-> control]
Started == {Vars("none", "unset", "unset", {}), Vars("f", "unset", "one", {"ignoreboth", "&"}),
            Vars("none", "one", "negative", {"erasedups"})}
Old == {<<"a", " b">>}
=============================================================================
