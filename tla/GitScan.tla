------------------------------- MODULE GitScan -------------------------------
(***************************************************************************)
(* The prompt's `git status`: one scanner process, not a child of the      *)
(* shell, that writes into a pipe, and one cached answer.  A prompt never   *)
(* waits long for it, so an answer may arrive after the shell has moved to  *)
(* another repository or run another command.                               *)
(***************************************************************************)
EXTENDS Naturals, FiniteSets

CONSTANTS
  Roots,        \* repositories
  Trees,        \* states of a working tree: the kinds of lines git prints
  Unseen,       \* how the tree changes without the shell knowing: a subset
                \* of {"foreign", "subshell"}
  GenMax        \* bound: commands that touch a tree

Outside == "outside"

VARIABLES
  where,        \* the repository of the current directory, or Outside
  tree,         \* what git would print of each repository
  gen,          \* git_scan_gen: commands that may have touched a tree
  untracked,    \* git_untracked_cell: untracked files are asked for
  cache,        \* git_dcache
  scan,         \* the scanner behind the pipe; `todo` lines it still has to
                \* write, `pipe` those not read yet
  excused       \* history: repositories changed unseen since they were read,
                \* or whose last scanner could not be started

vars == <<where, tree, gen, untracked, cache, scan, excused>>

Wanted(u) == {"staged", "unstaged", "unmerged"} \cup (IF u THEN {"untracked"} ELSE {})

\* A line of porcelain v2 sets these bits
gs_line(l) == CASE l = "M." -> {"staged"}
                [] l = ".M" -> {"unstaged"}
                [] l = "u"  -> {"staged", "unstaged", "unmerged"}
                [] l = "?"  -> {"untracked"}
gs_feed(lines) == UNION {gs_line(l) : l \in lines}
Printed(t, u) == IF u THEN t ELSE t \ {"?"}

NoScan == [runs |-> FALSE, read |-> FALSE, root |-> Outside, untracked |-> FALSE, todo |-> {}, pipe |-> {}]
NoCache == [init |-> FALSE, root |-> Outside, gen |-> 0, untracked |-> FALSE, over |-> FALSE,
            busy |-> FALSE, cur |-> {}, acc |-> {}, last |-> "none"]

Init == /\ where \in Roots \cup {Outside} /\ tree \in [Roots -> Trees]
        /\ gen = 0 /\ untracked = FALSE
        /\ cache = NoCache /\ scan = NoScan /\ excused = {}

(***************************************************************************)
(* Harvest                                                                 *)
(***************************************************************************)
Dirty(bits) == bits \cup (IF bits \cap {"staged", "unstaged"} = {} THEN {} ELSE {"dirty"})

git_scan_drop(c) == [c EXCEPT !.busy = FALSE]

(* Mutant: the answer is dated by its end, not by its start. *)
git_scan_publish_late(c) == [git_scan_drop(c) EXCEPT !.cur = Dirty(c.acc), !.over = FALSE, !.gen = gen]

git_scan_publish(c) == [git_scan_drop(c) EXCEPT !.cur = Dirty(c.acc), !.over = FALSE]

\* gs_drain reads what the pipe holds: over at its end, or as soon as no
\* further line could change the answer
gs_drain(c) == [c EXCEPT !.acc = @ \cup gs_feed(scan.pipe)]
Drained(c) == (scan.read /\ scan.todo = {}) \/ Wanted(c.untracked) \subseteq c.acc

poll_done(busy) ==
  LET c == gs_drain(busy)
  IN  IF Drained(c) THEN cache' = git_scan_publish(c) /\ scan' = NoScan
      ELSE cache' = c /\ scan' = [scan EXCEPT !.pipe = {}]

\* The line reader found the pipe readable
git_scan_poll ==
  /\ cache.busy /\ poll_done(cache)
  /\ UNCHANGED <<where, tree, gen, untracked, excused>>

(***************************************************************************)
(* A prompt is drawn                                                       *)
(***************************************************************************)
Fresh(c) == /\ c.init /\ c.root = where /\ c.gen = gen /\ c.untracked = untracked /\ ~c.over

\* How long the prompt may wait for the scan it starts
WaitFor(c) == IF ~c.init \/ c.root # where THEN "new"
              ELSE IF (c.gen # gen \/ c.untracked # untracked) /\ c.last = "quick" THEN "touched"
              ELSE "no"

git_scan_wait(c) ==
  LET moved == WaitFor(c) = "new"
  IN  [c EXCEPT !.init = TRUE, !.gen = gen, !.untracked = untracked, !.root = where,
                !.cur = IF moved THEN {} ELSE @, !.last = IF moved THEN "none" ELSE @]

Answer(r, u) == gs_feed(Printed(tree[r], u))

\* pipe() or fork() failed; the scan answered within the wait; or it goes on
spawn_check(c) ==
  \/ /\ cache' = [c EXCEPT !.busy = FALSE] /\ scan' = NoScan
     /\ excused' = excused \cup {where}
  \/ \E took \in {"quick", "slow"} :
       /\ WaitFor(cache) # "no"
       /\ cache' = [git_scan_publish([c EXCEPT !.acc = Answer(c.root, c.untracked)]) EXCEPT !.last = took]
       /\ scan' = NoScan /\ excused' = excused \ {where}
  \/ /\ cache' = [c EXCEPT !.busy = TRUE, !.acc = {}]
     /\ scan' = [NoScan EXCEPT !.runs = TRUE, !.root = c.root, !.untracked = c.untracked]
     /\ UNCHANGED excused

(* Mutant: a scan of another repository is waited for like any other. *)
Kept_all(c) == [c EXCEPT !.root = where]

\* A scan of a repository the shell has left is abandoned
Kept(c) == IF c.busy /\ c.root # where THEN git_scan_drop(c) ELSE c

git_dirty_cached ==
  LET c == Kept(cache)
  IN  /\ where # Outside
      /\ \/ c.busy /\ poll_done(c) /\ UNCHANGED excused
         \/ ~c.busy /\ ~Fresh(c) /\ spawn_check(git_scan_wait(c))
      /\ UNCHANGED <<where, tree, gen, untracked>>

(***************************************************************************)
(* The scanner, the clock, and what touches a tree                         *)
(***************************************************************************)
dirty_child ==
  /\ scan.runs
  /\ \/ /\ ~scan.read
        /\ scan' = [scan EXCEPT !.read = TRUE, !.todo = Printed(tree[scan.root], scan.untracked)]
        /\ excused' = excused \ {scan.root}
     \/ \E l \in scan.todo :
          /\ scan' = [scan EXCEPT !.todo = @ \ {l}, !.pipe = @ \cup {l}]
          /\ UNCHANGED excused
  /\ UNCHANGED <<where, tree, gen, untracked, cache>>

TtlPasses == /\ cache.init /\ ~cache.over /\ cache' = [cache EXCEPT !.over = TRUE]
             /\ UNCHANGED <<where, tree, gen, untracked, scan, excused>>

cd == /\ where' \in (Roots \cup {Outside}) \ {where}
      /\ UNCHANGED <<tree, gen, untracked, cache, scan, excused>>

Touched(r) == \E t \in Trees \ {tree[r]} : tree' = [tree EXCEPT ![r] = t]
git_tree_touched == gen < GenMax /\ gen' = gen + 1

\* An external command, or a redirection that writes, changes a tree
execute_cmd_bg == /\ git_tree_touched /\ \E r \in Roots : Touched(r)
                  /\ UNCHANGED <<where, untracked, cache, scan, excused>>

\* The vcs_info builtin reads its style
vcs_untracked == /\ untracked' = ~untracked
                 /\ UNCHANGED <<where, tree, gen, cache, scan, excused>>

\* Another process changes a tree; or a subshell does, whose count of the
\* commands is its own
Elsewhere == \E r \in Roots, how \in Unseen :
               /\ Touched(r)
               /\ excused' = IF how = "foreign" THEN excused \cup {r} ELSE excused
               /\ UNCHANGED <<where, gen, untracked, cache, scan>>

Next == \/ git_scan_poll \/ git_dirty_cached \/ dirty_child \/ TtlPasses
        \/ cd \/ execute_cmd_bg \/ vcs_untracked \/ Elsewhere
Spec == Init /\ [][Next]_vars

(***************************************************************************)
(* Properties                                                              *)
(***************************************************************************)
\* The answer a prompt may show without asking again is the state of the
\* repository it stands in: never another repository's, never from before
\* the last command that touched a tree, never cut short (git_dirty_cached,
\* git_scan_wait, git_scan_publish).
StarTrue ==
  (~cache.busy /\ where # Outside /\ Fresh(cache) /\ where \notin excused)
    => cache.cur = Dirty(Answer(where, untracked))
=============================================================================
