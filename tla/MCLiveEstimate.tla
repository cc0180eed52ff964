--------------------------- MODULE MCLiveEstimate ---------------------------
\* LiveEstimate for TLC: a suite, a unit check it covers, and the calls that move a
\* level, a write off the folder the intent names among them; a subagent that may write
\* a file in that folder, which may come to be on the disk at any time. Two records are
\* read of three, and the level asked after the last of them.
EXTENDS LiveEstimate

MCChecks == {"suite", "unit"}
MCCovers == {<<"suite", "unit">>}
MCMenu ==
  {[does |-> "check", of |-> "suite", ends |-> {"passed"}],
   [does |-> "check-then-fix", of |-> "suite", ends |-> {"passed"}],
   [does |-> "check", of |-> "unit", ends |-> {"failed"}],
   [does |-> "write", of |-> "etc", ends |-> {"passed"}],
   [does |-> "change", of |-> "", ends |-> {}],
   [does |-> "launch", of |-> "", ends |-> {}]}
MCChildMenu ==
  {[does |-> "write", of |-> "src", ends |-> {"passed"}]}
MCInside == [folder \in {"src/"} |-> {"src"}]
=============================================================================
