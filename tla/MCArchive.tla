------------------------------- MODULE MCArchive -------------------------------
(* Two runs that record the same worktree. *)
EXTENDS Archive
CONSTANTS r1, r2, w1
SharedTree == [r \in Runs |-> Trees]
\* Archives that overlap; locks; git that fails; a world that does not wait.
Cases ==
  {{"overlap", "resumes"}, {"locks"}, {"edits", "failures"}, {"edits", "commits"},
   {"window", "edits", "failures"}}
=============================================================================
