------------------------------- MODULE Update -------------------------------
(***************************************************************************)
(* `update --now`: download beside the installed binary, check the sum, run *)
(* what came, rename it over the target and ask the target for its version. *)
(* A file is an inode: a writer keeps the one it opened, a rename moves it. *)
(* An updater may be killed between any two steps, and leaves its download. *)
(***************************************************************************)
EXTENDS Naturals, FiniteSets

CONSTANTS
  Updaters,     \* shells that run update --now on this target
  Inodes        \* bound: files

VARIABLES
  data,         \* what each inode holds: "old", "new", "half" of a release,
                \* "odd" (complete, but not the version its tag says or not
                \* for this machine) or "none"
  target, tmp,  \* the inode at the installed path and at its sibling; 0: no file
  release,      \* what the release's asset is: "new" or "odd"
  sums,         \* the release publishes a checksum
  at,           \* where each updater is in update_apply
  writes,       \* the inode its curl or install has open
  elevated,     \* `sudo install` puts the download in place (target not ours)
  torn,         \* history: an install has begun to write and not ended well
  began,        \* history: what the target held when it began
  said          \* its last exit code: 0, a step code, or 9 for none yet

vars == <<data, target, tmp, release, sums, elevated, at, writes, torn, began, said>>

Free == {i \in Inodes : data[i] = "none"}
Fresh == CHOOSE i \in Free : TRUE

Init == /\ data = [i \in Inodes |-> IF i = 1 THEN "old" ELSE "none"]
        /\ target = 1 /\ tmp = 0
        /\ release \in {"new", "odd"} /\ sums \in BOOLEAN /\ elevated \in BOOLEAN /\ torn = FALSE
        /\ at = [u \in Updaters |-> "idle"] /\ writes = [u \in Updaters |-> 0]
        /\ began = [u \in Updaters |-> "old"] /\ said = [u \in Updaters |-> 9]

Goto(u, step) == at' = [at EXCEPT ![u] = step]
Ends(u, code) == Goto(u, "idle") /\ said' = [said EXCEPT ![u] = code]
Given == UNCHANGED <<release, sums, elevated, began>>
Still == Given /\ UNCHANGED torn

\* The download goes; nothing else holds its inode but a curl at work
unlink_tmp == /\ tmp' = 0
              /\ data' = IF tmp = 0 \/ tmp \in {writes[u] : u \in Updaters} THEN data
                         ELSE [data EXCEPT ![tmp] = "none"]
Fails(u, code) == Ends(u, code) /\ unlink_tmp /\ UNCHANGED <<target, writes>> /\ Still

(* Mutant: something executable is there. *)
validate_binary_there(i) == i # 0

\* validate_binary: the file runs here and answers with the tag.  That is what
\* its yes means; a no may also mean that there was no pipe or no process for
\* the question (update_capture), so each caller may get it for any file
validate_binary(i) == i # 0 /\ data[i] = "new"

Content(i) == IF i = 0 THEN "none" ELSE data[i]

(***************************************************************************)
(* The steps of update_apply                                               *)
(***************************************************************************)
update_selfupdate(u) ==
  /\ at[u] = "idle" /\ Goto(u, "fetch")
  /\ began' = [began EXCEPT ![u] = Content(target)]
  /\ UNCHANGED <<data, target, tmp, release, sums, elevated, writes, torn, said>>

\* curl -o: the first byte that arrives truncates or creates the file
curl_opens(u) ==
  /\ at[u] = "fetch" /\ Goto(u, "writing")
  /\ tmp = 0 => Free # {}
  /\ tmp' = IF tmp = 0 THEN Fresh ELSE tmp
  /\ data' = [data EXCEPT ![tmp'] = "half"] /\ writes' = [writes EXCEPT ![u] = tmp']
  /\ UNCHANGED <<target, said>> /\ Still

\* It wrote the whole asset, or was cut short: its exit status is not looked at
curl_ends(u) ==
  /\ at[u] = "writing" /\ Goto(u, "fetched")
  /\ \E cut \in BOOLEAN : data' = [data EXCEPT ![writes[u]] = IF cut THEN "half" ELSE release]
  /\ writes' = [writes EXCEPT ![u] = 0]
  /\ UNCHANGED <<target, tmp, said>> /\ Still

\* The size of what is at tmp now decides: curl's own file, or with no answer
\* from the server what a killed update left there
update_download(u) ==
  /\ at[u] \in {"fetch", "fetched"}
  /\ \/ Fails(u, 2)
     \/ /\ tmp # 0 /\ Goto(u, "verify")
        /\ UNCHANGED <<data, target, tmp, writes, said>> /\ Still

\* 0 the sums differ, or sha256_of cannot compute one of what may be the
\* right file; 1 they agree; -1 the release has no sum, or it did not come
update_verify_sha(u) ==
  /\ at[u] = "verify"
  /\ \/ sums /\ Fails(u, 3)
     \/ /\ Goto(u, "validate")
        /\ UNCHANGED <<data, target, tmp, writes, said>> /\ Still

validate_download(u) ==
  /\ at[u] = "validate"
  /\ \/ Fails(u, 4)
     \/ /\ validate_binary(tmp) /\ Goto(u, "place")
        /\ UNCHANGED <<data, target, tmp, writes, said>> /\ Still

\* rename(2) within one directory, and then a chmod that may fail by itself;
\* or install, which writes a new file and may be refused
move_into_place(u) ==
  /\ at[u] = "place"
  /\ \/ Fails(u, 5)
     \/ /\ ~elevated /\ tmp # 0
        /\ target' = tmp /\ tmp' = 0 /\ data' = [data EXCEPT ![target] = "none"]
        /\ (Goto(u, "prove") /\ UNCHANGED said) \/ Ends(u, 5)
        /\ UNCHANGED writes /\ Still
     \/ /\ elevated /\ tmp # 0 /\ Free # {}
        /\ target' = Fresh /\ writes' = [writes EXCEPT ![u] = Fresh]
        /\ data' = [data EXCEPT ![Fresh] = "half", ![target] = "none"]
        /\ Goto(u, "copying") /\ torn' = TRUE /\ UNCHANGED <<tmp, said>> /\ Given

\* It copied all, whatever it and sudo then exit with, or stopped before
install_ends(u) ==
  /\ at[u] = "copying"
  /\ writes' = [writes EXCEPT ![u] = 0] /\ tmp' = 0
  /\ \/ /\ torn' = FALSE /\ ((Goto(u, "prove") /\ UNCHANGED said) \/ Ends(u, 5))
        /\ data' = [data EXCEPT ![writes[u]] = Content(tmp), ![tmp] = "none"]
     \/ /\ Ends(u, 5) /\ UNCHANGED torn
        /\ data' = [data EXCEPT ![tmp] = "none"]
  /\ UNCHANGED target /\ Given

\* The proof of the outcome: 6 when the answer is another version, or none
update_apply(u) ==
  /\ at[u] = "prove"
  /\ Ends(u, 6) \/ (validate_binary(target) /\ Ends(u, 0))
  /\ UNCHANGED <<data, target, tmp, writes>> /\ Still

Killed(u) ==
  /\ at[u] # "idle" /\ Goto(u, "idle")
  /\ writes' = [writes EXCEPT ![u] = 0] /\ said' = [said EXCEPT ![u] = 9]
  /\ UNCHANGED <<data, target, tmp>> /\ Still

Next == \E u \in Updaters :
          \/ update_selfupdate(u) \/ curl_opens(u) \/ curl_ends(u) \/ update_download(u)
          \/ update_verify_sha(u) \/ validate_download(u) \/ move_into_place(u)
          \/ install_ends(u) \/ update_apply(u) \/ Killed(u)
Spec == Init /\ [][Next]_vars

(***************************************************************************)
(* Properties                                                              *)
(***************************************************************************)
\* At any moment, and so wherever an update fails or is killed, the installed
\* path holds a whole binary, the old one or the release itself.  Codes up to
\* 4 are only given for an update that left it as it found it, 0 only for one
\* that replaced it; 5 and 6 say neither (FailureChangesNothing).  A `sudo
\* install` that stopped half way is left out, for it is no rename
\* (update_apply, move_into_place).
BinaryWhole ==
  ~torn =>
  /\ Content(target) \in {"old", "new"}
  /\ \A u \in Updaters : at[u] = "idle" =>
       /\ said[u] \in 1 .. 4 => Content(target) = began[u]
       /\ said[u] = 0 => Content(target) = "new"

\* What the comment on update_apply says (update_apply.c:118-119): every
\* failure leaves the installed binary as it was.  5 after a rename whose
\* chmod failed and 6 after a question that could not be asked do not.
FailureChangesNothing ==
  \A u \in Updaters : at[u] = "idle" /\ said[u] \in 1 .. 6 => Content(target) = began[u]
=============================================================================
