------------------------------ MODULE MCOrphan ------------------------------
(* Orphan for TLC. *)
EXTENDS Orphan, TLC

ProcSymmetry == Permutations(Procs)

\* The calls that move names; no call fails.
Names == [ops |-> {"create", "open", "unlink", "rename", "tmpfile", "link"},
          faults |-> {}, inos |-> Ino]

\* Symbolic links, which are made in two transactions.
Symlinks == [ops |-> {"create", "unlink", "symlink", "rename"},
             faults |-> {}, inos |-> Ino]

\* The calls that change data, on one inode; the journal may refuse a handle to
\* any of them.
Errors == [ops |-> {"create", "unlink", "symlink", "append", "setattr", "dio",
                    "write"},
           faults |-> {"evict", "symlink", "setattr", "dio", "write"},
           inos |-> {1}]

\* Truncates that span several transactions.
Truncates == [ops |-> {"create", "unlink", "append", "setattr"},
              faults |-> {}, inos |-> Ino]

\* A failed write whose cleanup gets no handle.
FailedWrites == [ops |-> {"create", "unlink", "write"}, faults |-> {"write"},
                 inos |-> Ino]

CallMixes == {Names, Symlinks, Errors}
TruncateMixes == {Truncates}
FailedWriteMixes == {FailedWrites}

=============================================================================
