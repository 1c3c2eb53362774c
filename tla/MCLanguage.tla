---------------------------- MODULE MCLanguage ------------------------------
(***************************************************************************)
(* From the text of a command to the command: its syntax (MCSyntax), its   *)
(* words (MCWords), its redirections (MCRedir).  A behaviour is of one of   *)
(* them, and the variables of the others stay Idle.                        *)
(***************************************************************************)
EXTENDS Naturals, Sequences

CONSTANTS
  WordDepth, CharsMax, LinesMax,     \* MCSyntax
  ItemsMax, WritesMax,               \* MCWords
  ParkFloor, OpenMax, Interactive, MaxDepth, Mixed, MaxSteps   \* MCRedir

VARIABLES
  part,
  input, prog, text,
  kind, item, asked, val, ref,
  fds, files, noclobber, docs, subs, frames, alive, view, saved, steps

Sx == INSTANCE MCSyntax WITH kind <- input
Wd == INSTANCE MCWords
Rd == INSTANCE MCRedir

SxVars == <<input, prog, text>>
WdVars == <<kind, item, asked, val, ref>>
RdVars == <<fds, files, noclobber, docs, subs, frames, alive, view, saved, steps>>
vars == <<part, SxVars, WdVars, RdVars>>

Idle == "idle"
IdleSx == input = Idle /\ prog = Idle /\ text = Idle
IdleWd == kind = Idle /\ item = Idle /\ asked = Idle /\ val = Idle /\ ref = Idle
IdleRd == /\ fds = Idle /\ files = Idle /\ noclobber = Idle /\ docs = Idle /\ subs = Idle
          /\ frames = Idle /\ alive = Idle /\ view = Idle /\ saved = Idle /\ steps = Idle

Init == \/ part = "syntax" /\ Sx!Init /\ IdleWd /\ IdleRd
        \/ part = "words" /\ Wd!Init /\ IdleSx /\ IdleRd
        \/ part = "redirections" /\ Rd!Init /\ IdleSx /\ IdleWd

SyntaxStep == part = "syntax" /\ Sx!Next /\ UNCHANGED <<part, WdVars, RdVars>>
WordsStep == part = "words" /\ Wd!Next /\ UNCHANGED <<part, SxVars, RdVars>>
RedirStep == part = "redirections" /\ Rd!Next /\ UNCHANGED <<part, SxVars, WdVars>>

Next == SyntaxStep \/ WordsStep \/ RedirStep
Spec == Init /\ [][Next]_vars

-----------------------------------------------------------------------------
(* The steps the properties are about: a text is read, a word expanded.    *)
ReadStep == part = "syntax" /\ Sx!ReadText
ExpandStep == part = "words" /\ Wd!Expand

(* A program is read back as it was written, typed in one go or line by    *)
(* line, a prefix of it is never an error, and a damaged one that still    *)
(* parses keeps every word (parsing/).                                     *)
RoundTrip == [][ReadStep => Sx!RoundTrip /\ Sx!MoreNotError]_vars

(* The lexer, the bounded skipper and the re-parser of a word agree where  *)
(* a quotation or an expansion ends (lexer/, word_splitting/).             *)
SpansAgree == [][ReadStep => Sx!SpansAgree]_vars

(* An operator is the longest one that fits, and no character is lost      *)
(* between tokens, whole text or line by line (lexer/).                    *)
TokensExact == [][ReadStep => Sx!TokensExact]_vars

(* Every operator << gets its own body and no line of another, whoever     *)
(* reads the bodies, and a quoted body comes back unchanged (heredoc/).    *)
HeredocBodies == [][ReadStep => Sx!HeredocBodies /\ Sx!BodyQuoted]_vars

(* Aliases are expanded exactly where a command starts, and never twice    *)
(* (alias/).                                                               *)
AliasOnlyCommands == [][ReadStep => Sx!AliasOnlyCommands]_vars

(* A command of several lines recalled from the history is the same        *)
(* command, whatever its entry is called (infrastructure/hist*.c).         *)
RecalledSame == [][ReadStep => Sx!RecalledSame]_vars

(* An expression has the value C gives its tree, with C's side effects,    *)
(* the first time and from the cache (arith/).                             *)
ExpressionsMean == [][ExpandStep => Wd!ExpressionsMean]_vars

(* A pattern means one language wherever it stands: a text matches it      *)
(* exactly when it is in that language (glob/), ${v#p} and its kin take off *)
(* the shortest or longest end in it, ${v/p/r} and its kin replace the      *)
(* leftmost longest match (expander/expand_param*.c).                      *)
PatternsMean == [][ExpandStep => Wd!PatternsMean /\ Wd!TrimsMean /\ Wd!SubstsMean]_vars

(* A word with wildcards becomes the paths it stands for, in order, and    *)
(* itself when there is none (glob/).                                      *)
GlobFinds == [][ExpandStep => Wd!GlobFinds]_vars

(* A word with braces becomes every choice of its alternatives, the        *)
(* leftmost varying slowest (expander/brace*.c).                           *)
BracesMean == [][ExpandStep => Wd!BracesMean]_vars

(* The fields of a word are the ones POSIX cuts out of what its parts      *)
(* contribute, by the whole expansion and by its short cuts alike          *)
(* (word_splitting/, expander/expand_word*.c).                             *)
FieldsSplit == [][ExpandStep => Wd!FieldsSplit /\ Wd!FastPathAgrees]_vars

(* After any assignments the records of an array stand for the function    *)
(* the assignments describe (environment/env_array*.c).                    *)
StoreIsFunction == part = "words" => Wd!StoreIsFunction

(* A command starts with the table its redirections make one after the     *)
(* other, and afterwards the shell's own table is what the user's          *)
(* redirections left (expander/redir*.c, execution/utils*.c).              *)
RedirectionsMean ==
  part = "redirections" => Rd!GivenAsWritten /\ Rd!ShellKeepsItsTable
=============================================================================
