---------------------------- MODULE CommandLine ----------------------------
(***************************************************************************)
(* parchive create: the command line is read argument by argument          *)
(* (parseArgs, option and finish, src/cmd/parchive/args.go), and what came *)
(* of it is handed to createPar2 (module Par2Create).                      *)
(*                                                                         *)
(* An argument is a letter with its number, or a word.  Word k names the   *)
(* k-th file there is, word 0 an archive with its extension, and any other *)
(* word nothing that exists.                                               *)
(***************************************************************************)
EXTENDS Par2Create

CONSTANTS
    Jobs,               \* what the program may be called with, and the files there are
    DefaultBlockCount   \* 2000

Letters == {"b", "s", "r", "rk", "c", "f", "u", "l", "n",   \* rk: a size, in bytes as it is
                                                            \* after the unit is multiplied in
            "h", "a",
            "other",    \* -v, -q, -m, -p, -O, -N, -S, -R, -B: nothing createPar2 depends on
            "bad",      \* no option, or one whose value is not a number
            "--", "word"}
Argument == [opt : Letters, n : Nat]

ASSUME CommandLineAssumption ==
    /\ DefaultBlockCount \in Nat
    /\ \A j \in Jobs : j.disk \in Seq(Nat) /\ j.line \in Seq(Argument)

VARIABLES
    line,   \* the arguments
    disk,   \* the sizes of the files there are
    i,      \* the argument that is read next
    config

all == <<line, disk, i, config, vars>>

DefaultConfig == [given |-> {}, blockCount |-> DefaultBlockCount, blockSize |-> 0,
                  redundancy |-> 5, redundancySize |-> 0, recoveryBlocks |-> 0,
                  first |-> 0, files |-> 0, scheme |-> "variable",
                  names |-> << >>, archive |-> << >>]

Init ==
    /\ \E j \in Jobs : line = j.line /\ disk = j.disk
    /\ i = 1 /\ config = DefaultConfig
    /\ CreateInit

-----------------------------------------------------------------------------
(***************************************************************************)
(* The options.                                                            *)
(***************************************************************************)
Value == line[i].n
Literal == "--" \in config.given
Reading == pc = "args" /\ i <= Len(line)

Legal == LET n == Value
         IN  CASE line[i].opt = "b"   -> n \in 1 .. MaxBlocks
               [] line[i].opt = "s"   -> n > 0 /\ n % 4 = 0
               [] line[i].opt = "r"   -> n <= 100
               [] line[i].opt = "c"   -> n <= Limit
               [] line[i].opt = "n"   -> n \in 1 .. 31 /\ config.scheme # "limited"
               [] line[i].opt = "bad" -> FALSE
               [] OTHER               -> TRUE

At(letter) == Reading /\ ~Literal /\ Legal /\ line[i].opt = letter

Set(new) ==
    /\ config' = new /\ i' = i + 1
    /\ UNCHANGED <<line, disk, vars>>

Stop(how) ==
    /\ pc' = how
    /\ UNCHANGED <<line, disk, i, config, inputs, searchVars, plan, volumes, index>>

With(letter) == config.given \cup {letter}

BlockCountOption == At("b") /\ Set([config EXCEPT !.blockCount = Value])
BlockSizeOption  == At("s") /\ Set([config EXCEPT !.blockSize = Value, !.given = With("s")])
RedundancyOption == At("r") /\ Set([config EXCEPT !.redundancy = Value, !.given = With("r")])

\* Mutant of RedundancySizeOption: that redundancy was asked for is not noted.
RedundancySizeUnnoted ==
    At("rk") /\ Set([config EXCEPT !.redundancySize = Value, !.redundancy = 0])

\* A size stays when a percentage follows it.
RedundancySizeOption ==
    At("rk") /\ Set([config EXCEPT !.redundancySize = Value, !.redundancy = 0,
                                   !.given = With("r")])

RecoveryCountOption ==
    At("c") /\ Set([config EXCEPT !.recoveryBlocks = Value, !.given = With("c")])
FirstBlockOption == At("f") /\ Set([config EXCEPT !.first = Cut(Value)])
UniformOption == At("u") /\ Set([config EXCEPT !.scheme = "uniform"])
LimitedOption == At("l") /\ Set([config EXCEPT !.scheme = "limited"])

\* Mutant of FilesOption: the scheme is left as it is.
FilesOptionOnly == At("n") /\ Set([config EXCEPT !.files = Value])

FilesOption == At("n") /\ Set([config EXCEPT !.files = Value, !.scheme = "uniform"])
ArchiveOption ==
    At("a") /\ Set([config EXCEPT !.archive = << [opt |-> "word", n |-> Value] >>])
FlagOption == \E letter \in {"h", "--"} : At(letter) /\ Set([config EXCEPT !.given = With(letter)])
OtherOption == At("other") /\ Set(config)
BadOption == Reading /\ ~Literal /\ ~Legal /\ Stop("rejected")

\* After -- everything is a name.
Word == /\ Reading /\ (Literal \/ line[i].opt = "word")
        /\ Set([config EXCEPT !.names = Append(@, line[i])])

-----------------------------------------------------------------------------
(***************************************************************************)
(* What finish makes of it.                                                *)
(***************************************************************************)
Read == pc = "args" /\ i > Len(line)

Archive == Head(config.archive \o config.names)
Others == IF config.archive = << >> THEN Tail(config.names) ELSE config.names
Exists(name) == name.opt = "word" /\ name.n \in DOMAIN disk

\* An archive without the extension is also the file to protect, if no other
\* is named.
Sources == IF Others = << >> /\ Archive # [opt |-> "word", n |-> 0] THEN << Archive >> ELSE Others

Acceptable ==
    /\ "h" \notin config.given
    /\ config.archive \o config.names # << >>
    /\ ~({"r", "c"} \subseteq config.given)
    /\ Sources # << >> /\ \A k \in DOMAIN Sources : Exists(Sources[k])

AmountOf(c) ==
    CASE "c" \in c.given -> [kind |-> "blocks", n |-> c.recoveryBlocks]
      [] "c" \notin c.given /\ c.redundancySize > 0 -> [kind |-> "bytes", n |-> c.redundancySize]
      [] OTHER -> [kind |-> "percent", n |-> c.redundancy]

Help == Read /\ "h" \in config.given /\ Stop("shown")

Refuse == Read /\ "h" \notin config.given /\ ~Acceptable /\ Stop("rejected")

Accept ==
    /\ Read /\ Acceptable
    /\ sizes' = [k \in DOMAIN Sources |-> disk[Sources[k].n]]
    /\ blockCount' = IF "s" \in config.given THEN 0 ELSE config.blockCount
    /\ request' = [blockSize |-> config.blockSize, scheme |-> config.scheme,
                   first |-> config.first, amount |-> AmountOf(config), files |-> config.files]
    /\ pc' = IF "s" \in config.given THEN "plan" ELSE "size"
    /\ UNCHANGED <<line, disk, i, config, searchVars, plan, volumes, index>>

Option ==
    \/ BlockCountOption \/ BlockSizeOption \/ RedundancyOption \/ RedundancySizeOption
    \/ RecoveryCountOption \/ FirstBlockOption \/ UniformOption \/ LimitedOption
    \/ FilesOption \/ ArchiveOption \/ FlagOption \/ OtherOption

Create == CreateStep /\ UNCHANGED <<line, disk, i, config>>
Fail == Fails /\ UNCHANGED <<line, disk, i, config>>
Exited == pc \in Exits /\ UNCHANGED all

Step == Option \/ BadOption \/ Word \/ Help \/ Refuse \/ Accept \/ Create
Next == Step \/ Fail \/ Exited
Spec == Init /\ [][Next]_all /\ WF_all(Step)

-----------------------------------------------------------------------------
Accepted == sizes # << >>
Options == { k \in DOMAIN line : line[k].opt # "word" /\ \A h \in 1 .. k - 1 : line[h].opt # "--" }
Given(letter) == \E k \in Options : line[k].opt = letter
Number(letter, default) ==
    IF Given(letter) THEN line[CHOOSE k \in Options : line[k].opt = letter].n ELSE default

\* The options that choose how the blocks are spread over the files.
SchemeOptions == { k \in Options : line[k].opt \in {"u", "l", "n"} }

\* No option is given twice, and redundancy not both as a percentage and as a size.
Plain ==
    /\ \A k, h \in Options : k # h => line[k].opt # line[h].opt
    /\ ~(Given("r") /\ Given("rk"))

\* A command line that is accepted asks for what its options say, in whatever
\* order they come.  Two give way to others: -b to -s, and of -u, -l and -n the
\* last chooses the scheme, the number of -n being kept.  Redundancy is never
\* asked for in two ways at once.  Of -f nothing is said if its number does not
\* fit: then the code takes what is left of it (args.go:297).
\* (args.go:185-372)
ReadAsAsked ==
    Accepted /\ Plain =>
        /\ ~(Given("c") /\ (Given("r") \/ Given("rk")))
        /\ request.blockSize = Number("s", 0)
        /\ blockCount = IF Given("s") THEN 0 ELSE Number("b", DefaultBlockCount)
        /\ request.scheme =
             IF SchemeOptions = {} THEN "variable"
             ELSE IF \E k \in SchemeOptions :
                        line[k].opt = "l" /\ \A h \in SchemeOptions : h <= k
                  THEN "limited" ELSE "uniform"
        /\ request.files = Number("n", 0)
        /\ Number("f", 0) < Power[CountBits] => request.first = Number("f", 0)
        /\ request.amount =
             CASE Given("c") -> [kind |-> "blocks", n |-> Number("c", 0)]
               [] Given("rk") /\ Number("rk", 0) > 0 -> [kind |-> "bytes", n |-> Number("rk", 0)]
               [] Given("rk") /\ Number("rk", 0) = 0 -> [kind |-> "percent", n |-> 0]
               [] OTHER -> [kind |-> "percent", n |-> Number("r", 5)]

\* -n without -l: as many recovery files come out as were asked for, or one for
\* each block if there are fewer blocks, whatever else was on the line.
\* (args.go:313-319, layout.go:149-159)
AsManyFilesAsAsked ==
    pc = "done" /\ Given("n") /\ ~Given("l") =>
        \E k \in Options : line[k].opt = "n" /\ Len(volumes) = Least(line[k].n, RecoveryBlocks)
=============================================================================
