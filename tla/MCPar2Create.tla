---------------------------- MODULE MCPar2Create ----------------------------
EXTENDS CommandLine

A(letter, number) == [opt |-> letter, n |-> number]
Names(sz) == << A("word", 0) >> \o [k \in 1 .. Len(sz) |-> A("word", k)]
Job(lines, sz) == { [line |-> l \o Names(s), disk |-> s] : l \in lines, s \in sz }

(***************************************************************************)
(* For the block size: one to three files of up to 17 bytes, empty ones    *)
(* included, and a large file next to small ones, so that the bisection    *)
(* takes several steps; every block count up to 12.                        *)
(***************************************************************************)
SizeJobs ==
    Job({ << A("b", n), A("c", 1) >> : n \in 1 .. 12 },
        [1 .. 1 -> 0 .. 17] \cup [1 .. 2 -> {0, 1, 3, 4, 5, 8, 9, 12, 16, 17}]
          \cup [1 .. 3 -> {0, 1, 4, 9, 17}]
          \cup { <<100>>, <<100, 7>>, <<7, 100>>, <<100, 63, 7>> })

(***************************************************************************)
(* For the layout: a largest file of no block to six, and every number of  *)
(* recovery blocks up to 17, so that there are up to five files of         *)
(* doubling size and a remainder.                                          *)
(***************************************************************************)
Blocks == { A("c", n) : n \in 0 .. 17 }
Amounts == Blocks \cup { A("r", n) : n \in {0, 3, 10, 100} }
                  \cup { A("rk", n) : n \in {0, 200, 400, 900, 3000} }
NumberOfFiles == { A("n", n) : n \in 1 .. 4 }
LayoutSizes == { <<4 * k>> : k \in 0 .. 6 } \cup { <<20, 30>> }
LimitedJobs == Job({ << A("s", 4), A("l", 0), a >> : a \in Blocks }, LayoutSizes)
LayoutJobs ==
    Job({ << A("s", 4), A("f", f), a, scheme >> :
            f \in {0, 3}, a \in Amounts,
            scheme \in { A("other", 0), A("u", 0), A("l", 0) } \cup NumberOfFiles }
          \cup { << A("s", 4), files, A("l", 0), a >> : files \in NumberOfFiles, a \in Amounts },
        LayoutSizes)

(***************************************************************************)
(* For the command line: every way to give up to three of these arguments  *)
(* before the names, among them numbers that are refused or cut (35), and  *)
(* files whose blocks add up to nothing in five bits.                      *)
(***************************************************************************)
Arguments ==
    { A("b", 2), A("b", 0), A("s", 4), A("s", 6), A("r", 10), A("rk", 200), A("c", 3),
      A("f", 2), A("f", 35), A("f", 31), A("u", 0), A("l", 0), A("n", 2), A("h", 0),
      A("a", 0), A("bad", 0), A("--", 0), A("word", 1), A("word", 9) }
LineJobs ==
    Job([1 .. 3 -> Arguments], { <<20, 9>> })
      \cup Job([1 .. 2 -> Arguments], { <<100, 28>> })
      \cup { [line |-> l, disk |-> <<8>>] :
               l \in { << >>, << A("a", 0) >>, << A("word", 0) >>, << A("word", 1) >>,
                       << A("--", 0), A("s", 4), A("word", 1) >> } }

AllJobs == SizeJobs \cup LayoutJobs \cup LineJobs
=============================================================================
