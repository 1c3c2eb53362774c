------------------------------ MODULE Getopts -------------------------------
(***************************************************************************)
(* getopts, one option a call.  The word it is at is in $OPTIND, where the *)
(* user may write; the letter it is at inside that word is the shell's.    *)
(* Whether $OPTIND is still what getopts wrote is told by the address of   *)
(* its value, an address the heap may give again once the value is gone.   *)
(***************************************************************************)
EXTENDS Integers, SequencesExt

CONSTANTS
  ArgLists,    \* the arguments there can be: sequences of words, words of letters
  OptStrings,  \* [silent, plain, taking]: `:`, letters without and with an argument
  OptInds,     \* what the user gives to OPTIND
  Addrs,       \* the addresses of the heap
  Liberties    \* of "twice", "local", "shrink": what scripts may do besides

VARIABLES
  args, optstring,
  OPTIND,      \* [val, addr], or UnsetOptind
  getopts_ref, getopts_pos,
  saved,       \* the OPTIND a function made local, and what its caller had seen
  seen         \* since the scan began: the word it began at and what was reported

vars == <<args, optstring, OPTIND, getopts_ref, getopts_pos, saved, seen>>

UnsetOptind == [val |-> 0, addr |-> 0]
Unset == <<"(unset)">>
Began(i) == [from |-> i, reports |-> <<>>, ended |-> FALSE]
Lost == Began(0)
NotSaved == [OPTIND |-> UnsetOptind, args |-> <<>>, seen |-> Lost]

Takes(c) == c \in optstring.taking
Known(c) == c \in optstring.plain \cup optstring.taking

-----------------------------------------------------------------------------
(* What the arguments mean, word by word: the options of words[i..], and   *)
(* the index of the first operand.                                         *)

Report(name, optarg) == [name |-> name, OPTARG |-> optarg]
Said(c) == IF optstring.silent THEN <<c>> ELSE Unset
Plain(c) == IF Known(c) THEN Report(c, Unset) ELSE Report("?", Said(c))
Wanting(c) == Report(IF optstring.silent THEN ":" ELSE "?", Said(c))
IsOption(w) == Len(w) > 1 /\ w[1] = "-" /\ w # <<"-", "-">>

Meaning(words, from) ==
  LET Means[i \in 1 .. Len(words) + 1] ==
        LET w == words[i]
            k == SelectInSeq(w, Takes)
            flags == [j \in 1..((IF k = 0 THEN Len(w) ELSE k - 1) - 1) |-> Plain(w[j + 1])]
            attached == k # 0 /\ k < Len(w)
            apart == k # 0 /\ k = Len(w) /\ i < Len(words)
            last == IF attached THEN <<Report(w[k], SubSeq(w, k + 1, Len(w)))>>
                    ELSE IF apart THEN <<Report(w[k], words[i + 1])>>
                    ELSE IF k # 0 THEN <<Wanting(w[k])>> ELSE <<>>
            rest == Means[IF apart THEN i + 2 ELSE i + 1]
        IN  IF i > Len(words) THEN [reports |-> <<>>, operand |-> i]
            ELSE IF w = <<"-", "-">> THEN [reports |-> <<>>, operand |-> i + 1]
            ELSE IF ~IsOption(w) THEN [reports |-> <<>>, operand |-> i]
            ELSE [rest EXCEPT !.reports = flags \o last \o @]
  IN  Means[from]

-----------------------------------------------------------------------------
(* The code.  G has the state of one call: the word, the letter counted    *)
(* from 0 as in C, and what was set.                                       *)

count == Len(args)
cur(G) == args[G.optind]
At(G) == cur(G)[G.pos + 1]

gopt_advance(G) ==
  IF G.pos + 1 = Len(cur(G)) THEN [G EXCEPT !.optind = @ + 1, !.pos = 0]
  ELSE [G EXCEPT !.pos = @ + 1]

one_option_bad(G) ==
  [gopt_advance(G) EXCEPT !.report = Report("?", Said(At(G)))]

gopt_want_error(G) ==
  [G EXCEPT !.pos = 0, !.optind = @ + 1, !.report = Wanting(At(G))]

(* Mutant: the next word is the argument even when this one goes on.       *)
gopt_want_arg_apart(G) ==
  IF G.optind + 1 <= count
  THEN [G EXCEPT !.pos = 0, !.optind = @ + 2, !.report = Report(At(G), args[G.optind + 1])]
  ELSE gopt_want_error(G)
gopt_want_arg(G) ==
  IF G.pos + 1 < Len(cur(G))
  THEN [G EXCEPT !.pos = 0, !.optind = @ + 1,
                 !.report = Report(At(G), SubSeq(cur(G), G.pos + 2, Len(cur(G))))]
  ELSE IF G.optind + 1 <= count
  THEN [G EXCEPT !.pos = 0, !.optind = @ + 2, !.report = Report(At(G), args[G.optind + 1])]
  ELSE gopt_want_error(G)

one_option(G) ==
  IF ~Known(At(G)) THEN one_option_bad(G)
  ELSE IF Takes(At(G)) THEN gopt_want_arg(G)
  ELSE [gopt_advance(G) EXCEPT !.report = Report(At(G), Unset)]

gopt_done(G) ==
  LET dashes == G.optind <= count /\ cur(G) = <<"-", "-">>
  IN  [G EXCEPT !.pos = 0, !.report = Report("?", Unset), !.more = FALSE,
                !.optind = IF dashes THEN @ + 1 ELSE @]

(* Past the letters of the word: on to the next word, and only once, as    *)
(* the first letter of an option is one of the word.                       *)
AtOption(G) == G.optind <= count /\ IsOption(cur(G))
gopt_run(G0) ==
  LET G1 == IF G0.pos < 1 THEN [G0 EXCEPT !.pos = 1] ELSE G0
      past == AtOption(G1) /\ G1.pos = Len(cur(G1))
      G == IF past THEN [G1 EXCEPT !.pos = 1, !.optind = @ + 1] ELSE G1
  IN  IF AtOption(G) THEN one_option(G) ELSE gopt_done(G)

(* Mutant: only the number is looked at.                                   *)
gopt_read_optind_number ==
  LET i == IF OPTIND.val < 1 THEN 1 ELSE OPTIND.val
  IN  [optind |-> IF i > count + 1 THEN count + 1 ELSE i,
       pos |-> IF i > count + 1 THEN 0 ELSE getopts_pos,
       report |-> Report("?", Unset), more |-> TRUE]
gopt_read_optind ==
  LET i == IF OPTIND.val < 1 THEN 1 ELSE OPTIND.val
  IN  [optind |-> IF i > count + 1 THEN count + 1 ELSE i,
       pos |-> IF OPTIND = UnsetOptind \/ OPTIND.addr # getopts_ref \/ i > count + 1
               THEN 0 ELSE getopts_pos,
       report |-> Report("?", Unset), more |-> TRUE]

-----------------------------------------------------------------------------
(* What a script does.                                                     *)

Live == {OPTIND.addr, saved.OPTIND.addr} \ {0}
Free == Addrs \ Live

(* The new value is made before the old one is freed.                      *)
gopt_commit_optind(i) ==
  \E a \in Free : OPTIND' = [val |-> i, addr |-> a] /\ getopts_ref' = a

(* The letter at hand is one of the word, or the end of it.                *)
Within(G) == G.optind \in DOMAIN args => G.pos <= Len(cur(G))

Init ==
  /\ args \in ArgLists /\ optstring \in OptStrings
  /\ OPTIND = [val |-> 1, addr |-> 1] /\ getopts_ref = 0 /\ getopts_pos = 0
  /\ saved = NotSaved /\ seen = Began(1)

builtin_getopts ==
  LET G == gopt_run(gopt_read_optind)
  IN  /\ Within(gopt_read_optind)
      /\ gopt_commit_optind(G.optind)
      /\ getopts_pos' = G.pos
      /\ seen' = IF seen.ended THEN Lost
                 ELSE IF G.more THEN [seen EXCEPT !.reports = Append(@, G.report)]
                 ELSE [seen EXCEPT !.ended = TRUE]
      /\ UNCHANGED <<optstring, args, saved>>

(* OPTIND=i.  Once the value getopts wrote is freed, the new one may be    *)
(* where it was.                                                           *)
UserSetsOptind(i) ==
  /\ getopts_ref \in Live \cup {0} \/ "twice" \in Liberties
  /\ \E a \in Free : OPTIND' = [val |-> i, addr |-> a]
  /\ seen' = Began(IF i < 1 THEN 1 ELSE IF i > count THEN count + 1 ELSE i)
  /\ UNCHANGED <<optstring, args, getopts_ref, getopts_pos, saved>>

UserUnsetsOptind ==
  /\ OPTIND' = UnsetOptind
  /\ seen' = Began(1)
  /\ UNCHANGED <<optstring, args, getopts_ref, getopts_pos, saved>>

(* set --, shift: what a scan that goes on will say is anyone's guess.     *)
UserSetsArgs(new) ==
  /\ new # args
  /\ "shrink" \notin Liberties /\ OPTIND.val \in DOMAIN new => getopts_pos <= Len(new[OPTIND.val])
  /\ args' = new
  /\ seen' = IF OPTIND = UnsetOptind THEN Began(1) ELSE Lost
  /\ UNCHANGED <<optstring, OPTIND, getopts_ref, getopts_pos, saved>>

(* A function that scans its own arguments with `local OPTIND=1`, called   *)
(* from the loop of another scan: scope_save copies the value, and its     *)
(* return puts the copy back.                                              *)
CallWithLocal(own) ==
  /\ saved = NotSaved /\ OPTIND # UnsetOptind
  /\ getopts_pos = 0 \/ "local" \in Liberties
  /\ \E copy \in Free, a \in Free :
       /\ copy # a
       /\ saved' = [OPTIND |-> [OPTIND EXCEPT !.addr = copy], args |-> args, seen |-> seen]
       /\ OPTIND' = [val |-> 1, addr |-> a]
  /\ args' = own /\ seen' = Began(1)
  /\ UNCHANGED <<optstring, getopts_ref, getopts_pos>>
Return ==
  /\ saved # NotSaved
  /\ OPTIND' = saved.OPTIND /\ args' = saved.args /\ seen' = saved.seen
  /\ saved' = NotSaved
  /\ UNCHANGED <<optstring, getopts_ref, getopts_pos>>

Next ==
  \/ builtin_getopts
  \/ \E i \in OptInds : UserSetsOptind(i)
  \/ UserUnsetsOptind
  \/ \E new \in ArgLists : UserSetsArgs(new) \/ CallWithLocal(new)
  \/ Return

Spec == Init /\ [][Next]_vars

-----------------------------------------------------------------------------
(* What getopts has reported since its scan began - at the start, where    *)
(* the user put OPTIND, or in a function with an OPTIND of its own - is    *)
(* what the arguments mean, and at the end OPTIND is at the first operand; *)
(* the letter it looks at is one of the word (builtin_getopts*.c).         *)
ReportsAsWritten ==
  /\ seen.from > 0 =>
       LET meant == Meaning(args, seen.from)
       IN  /\ IsPrefix(seen.reports, meant.reports)
           /\ seen.ended => seen.reports = meant.reports /\ OPTIND.val = meant.operand
  /\ Within(gopt_read_optind)
=============================================================================
