---------------------------- MODULE MCBranchSync ----------------------------
EXTENDS BranchSync

\* Two heads on one commit, and commits that two others depend on.
MCGraphs == { << {}, {1}, {2}, {2} >>, << {}, {1}, {1, 2}, {2, 3} >> }

MCHeadSets == {{4}, {3, 4}}

\* A member listed twice: the first entry counts.
MCMembers ==
  << [id |-> "a", commit_types |-> {"Branch", "Transaction"}],
     [id |-> "b", commit_types |-> {"Ack"}],
     [id |-> "b", commit_types |-> {"Transaction"}] >>

Commit(a, t, s) == [author |-> a, type |-> t, signed |-> s]

\* The first commit is a root, signed by a key that is no member's; the second is
\* the Branch commit of a fork, whose dependency is a head of the other branch.
MCDetails == {<< Commit("c", "Branch", TRUE), Commit("a", "Branch", TRUE),
                 Commit("b", "Transaction", TRUE), Commit("a", "Transaction", TRUE) >>}
=============================================================================
