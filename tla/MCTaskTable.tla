----------------------------- MODULE MCTaskTable -----------------------------
(* Small instances of TaskTable.                                            *)
EXTENDS TaskTable, TLC

CONSTANTS mm, init, a, c1, c2, c3, c4, c5

MCTask == {mm, init, a}
Caps4  == {c1, c2, c3, c4}
Caps5  == {c1, c2, c3, c4, c5}

\* mm_table: three levels as on the machine (KILO, MEGA, GIGA), two entries
\* to a table, four GIGA pages of space.  One page of init from the boot.
ThreeLevels == 0 :> 1 @@ 1 :> 2 @@ 2 :> 4
MCBoot      == c1 :> 1
OnePage     == [stack_available |-> 0, total_available |-> 0, stack_commit |-> 1, data |-> FALSE]
SmallTask   == [stack_available |-> 1, total_available |-> 3, stack_commit |-> 1, data |-> TRUE]
TableAttach == {SmallTask, [SmallTask EXCEPT !.stack_commit = 0]}

\* mm_stack: two levels, four KILO pages to a MEGA page.  Stacks of up to
\* three pages, with and without data, some too big for their quota or
\* their limit, and one of a whole MEGA page.
TwoLevels   == 0 :> 1 @@ 1 :> 4
NoBoot      == <<>>
MegaStack   == [OnePage EXCEPT !.stack_commit = 4]
StackAttach == {[OnePage EXCEPT !.stack_commit = 3],
                [OnePage EXCEPT !.stack_available = 3, !.total_available = 3,
                                !.stack_commit = 2, !.data = TRUE],
                [OnePage EXCEPT !.stack_available = 3, !.total_available = 4,
                                !.stack_commit = 3, !.data = TRUE],
                [OnePage EXCEPT !.stack_available = 1, !.stack_commit = 2],
                MegaStack}
MegaOnly    == {MegaStack}

CapSymmetry == Permutations({c2, c3, c4})
=============================================================================
