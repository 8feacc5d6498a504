------------------------------- MODULE MCData -------------------------------
EXTENDS DataPath, TLC
CONSTANTS b1, b2
Plain == [nolock |-> FALSE, delalloc |-> TRUE, others |-> 0, watermark |-> 0,
          nomem |-> FALSE, rival |-> FALSE, datasync |-> {TRUE}, writes |-> 1, calls |-> 1,
          ops |-> {"fsync"}]
MCSetups ==
  {[Plain EXCEPT !.others = 1, !.calls = 2, !.ops = {"truncate", "punch", "fsync"}],
   [Plain EXCEPT !.nolock = TRUE, !.delalloc = FALSE, !.others = 1, !.calls = 2,
                 !.ops = {"truncate", "falloc", "zero", "fsync"}, !.datasync = {FALSE}],
   [Plain EXCEPT !.delalloc = FALSE, !.others = 1, !.calls = 2, !.ops = {"dio", "fsync"}],
   [Plain EXCEPT !.nolock = TRUE, !.others = 1, !.writes = 2, !.ops = {"dio"}],
   [Plain EXCEPT !.nolock = TRUE, !.writes = 2, !.calls = 0],
   [Plain EXCEPT !.watermark = 2, !.writes = 2, !.calls = 0],
   [Plain EXCEPT !.others = 1, !.nomem = TRUE, !.rival = TRUE, !.datasync = BOOLEAN,
                 !.ops = {"fsync", "falloc"}]}
LateSetups == {[Plain EXCEPT !.nolock = TRUE, !.ops = {"truncate"}]}

Symmetric == Permutations(Phys)
=============================================================================
